---- MODULE Spec2Model ----
(***************************************************************************)
(* csi-certify: registration of storage test drivers from command-line     *)
(* flags (--driverdef, --external-testdriver, --bash-testdriver,           *)
(* --testdriver) and the operations the storage test suites call on a      *)
(* registered driver (SkipUnsupportedTest,                                  *)
(* GetDynamicProvisionStorageClass, CreateVolume, ...).                     *)
(*                                                                         *)
(* Four adapters are modelled, each from its own source file:              *)
(*   "yaml"    pkg/certify/external/external.go          (driverDefinition)*)
(*   "ext"     pkg/certify/external-testdriver/driver-call.go              *)
(*   "bash"    the externalBash package (bashDriver)                       *)
(*   "legacy"  the earlier external package (DriverDefinition)             *)
(* The kubeconfig namespace, the scripts and the definition files are the  *)
(* environment of the program.                                             *)
(*                                                                         *)
(* Specifications:                                                         *)
(*   Spec       flags, certify.Test and the driver operations              *)
(*   DriverSpec one registered driver, every definition                    *)
(*   ConcSpec   execCommand calls of several goroutines, interleaved       *)
(*   LoadSpec   Set of every adapter, the earlier one included             *)
(*   TuneSpec   csiTunePattern on every short pattern list                 *)
(*   CaseSpec   one test case of the provisioning suite                    *)
(*   SetupSpec  a descriptor through setup, operations and teardown        *)
(*   TeardownSpec  DeleteVolume of the test volumes                        *)
(*   StreamSpec    pod-log streaming around each test case                 *)
(*   LegacySpec    the earlier certify.Test with the earlier --driverdef   *)
(*   ProvisionSpec TestDynamicProvisioning, statement by statement         *)
(*   SourceSpec    GetPersistentVolumeSource after any registrations       *)
(*   ExecSpec      one execCommand of the bash-testdriver adapter          *)
(*   ManifestSpec  manifestDriver.GetDynamicProvisionStorageClass          *)
(***************************************************************************)
EXTENDS Integers, Sequences, FiniteSets, TLC

(***************************************************************************)
(* Bounds of the model.                                                    *)
(***************************************************************************)
\* how many driver flags one command line carries
MaxDrivers == 2

(***************************************************************************)
(* Values of the Kubernetes test framework used by the code.               *)
(***************************************************************************)
InlineVolume == "InlineVolume"
PreprovisionedPV == "PreprovisionedPV"
DynamicPV == "DynamicPV"
DynamicCreatedSnapshot == "DynamicSnapshot"
\* a TestSnapshotType that the code does not name (the type is a string)
OtherSnapshot == "PreprovisionedSnapshot"
FsTypeKey == "csi.storage.k8s.io/fstype"

VolTypes == {InlineVolume, PreprovisionedPV, DynamicPV}
SnapshotTypes == {"", DynamicCreatedSnapshot, OtherSnapshot}
FsTypes == {"", "ext4"}
TestPatterns == [VolType : VolTypes, FsType : FsTypes, SnapshotType : SnapshotTypes]
\* namespaces the framework creates for a test case
TestNamespaces == {"e2e-1"}
\* namespaces the user's kubeconfig may name when the program starts
UserNamespaces == {"default", "prod"}

(***************************************************************************)
(* Go maps: a nil map and an empty map are different values.               *)
(***************************************************************************)
EmptyKV == [k \in {} |-> ""]
NilMap == [isNil |-> TRUE, kv |-> EmptyKV]
MakeMap == [isNil |-> FALSE, kv |-> EmptyKV]
MapOf(kv) == [isNil |-> FALSE, kv |-> kv]
\* m[k] = v on a non-nil map
MapSet(m, k, v) ==
  [isNil |-> FALSE,
   kv |-> [x \in (DOMAIN m.kv) \cup {k} |-> IF x = k THEN v ELSE m.kv[x]]]

(***************************************************************************)
(* utils.DriverDefinition and the defaults every loader starts from.       *)
(***************************************************************************)
DefaultDriverDefinition_NoClaimSize ==
  [DriverInfo |-> [Name |-> "", SupportedFsType |-> {""}],
   StorageClass |-> [FromName |-> FALSE, FromFile |-> ""],
   SnapshotClass |-> [FromName |-> FALSE],
   ClaimSize |-> "",
   ClientNodeName |-> ""]
DefaultDriverDefinition ==
  [DriverInfo |-> [Name |-> "", SupportedFsType |-> {""}],
   StorageClass |-> [FromName |-> FALSE, FromFile |-> ""],
   SnapshotClass |-> [FromName |-> FALSE],
   ClaimSize |-> "5Gi",
   ClientNodeName |-> ""]

\* A definition document: a record holding only the fields the document sets.
DocHas(doc, f) == f \in DOMAIN doc
DocGet(doc, f, default) == IF DocHas(doc, f) THEN doc[f] ELSE default

\* runtime.DecodeInto on a decodable document: fields present in the document
\* overwrite the pre-set struct; a map field (SupportedFsType is a sets.String)
\* is reused, so the document's entries are added to the ones already there.
DecodeInto(doc, driver) ==
  [DriverInfo |->
     [Name |-> DocGet(doc, "Name", driver.DriverInfo.Name),
      SupportedFsType |->
        driver.DriverInfo.SupportedFsType \cup DocGet(doc, "SupportedFsType", {})],
   StorageClass |->
     [FromName |-> DocGet(doc, "SCFromName", driver.StorageClass.FromName),
      FromFile |-> DocGet(doc, "SCFromFile", driver.StorageClass.FromFile)],
   SnapshotClass |->
     [FromName |-> DocGet(doc, "SnapFromName", driver.SnapshotClass.FromName)],
   ClaimSize |-> DocGet(doc, "ClaimSize", driver.ClaimSize),
   ClientNodeName |-> DocGet(doc, "ClientNodeName", driver.ClientNodeName)]

(***************************************************************************)
(* SkipUnsupportedTest.                                                    *)
(***************************************************************************)
Proceed == [outcome |-> "proceed", reason |-> ""]
SkipVolType == [outcome |-> "skip", reason |-> "volume type"]
SkipSnapshotType == [outcome |-> "skip", reason |-> "snapshot type"]

\* the DynamicPV case of the three adapters
DynamicPVSupported_FromNameOnly(d) == d.StorageClass.FromName
DynamicPVSupported(d) ==
  d.StorageClass.FromName \/ d.StorageClass.FromFile # ""

\* the second switch of SkipUnsupportedTest, the same text in the three adapters
SnapshotTypeSupported_AnyWithClass(d, pattern) ==
  pattern.SnapshotType = "" \/ d.SnapshotClass.FromName
SnapshotTypeSupported(d, pattern) ==
  CASE pattern.SnapshotType = "" -> TRUE
    [] pattern.SnapshotType = DynamicCreatedSnapshot -> d.SnapshotClass.FromName
    [] OTHER -> FALSE

\* external.go: only DynamicPV has a case
YamlVolTypeSupported(d, pattern) ==
  CASE pattern.VolType = DynamicPV -> DynamicPVSupported(d)
    [] OTHER -> FALSE

YamlSkipUnsupportedTest(d, pattern) ==
  IF ~YamlVolTypeSupported(d, pattern) THEN SkipVolType
  ELSE IF ~SnapshotTypeSupported(d, pattern) THEN SkipSnapshotType
  ELSE Proceed

\* driver-call.go: PreprovisionedPV consults the two package-level flags
ExtVolTypeSupported(d, pattern, pvFlag, volFlag) ==
  CASE pattern.VolType = DynamicPV -> DynamicPVSupported(d)
    [] pattern.VolType = PreprovisionedPV -> pvFlag \/ volFlag
    [] OTHER -> FALSE

ExtSkipUnsupportedTest(d, pattern, pvFlag, volFlag) ==
  IF ~ExtVolTypeSupported(d, pattern, pvFlag, volFlag) THEN SkipVolType
  ELSE IF ~SnapshotTypeSupported(d, pattern) THEN SkipSnapshotType
  ELSE Proceed

\* bashDriver: PreprovisionedPV consults the driver's own two fields
BashVolTypeSupported(b, pattern) ==
  CASE pattern.VolType = DynamicPV -> DynamicPVSupported(b.def)
    [] pattern.VolType = PreprovisionedPV ->
         b.preprovisionedPVTestDriver \/ b.preprovisionedVolumeTestDriver
    [] OTHER -> FALSE

BashSkipUnsupportedTest(b, pattern) ==
  IF ~BashVolTypeSupported(b, pattern) THEN SkipVolType
  ELSE IF ~SnapshotTypeSupported(b.def, pattern) THEN SkipSnapshotType
  ELSE Proceed

(***************************************************************************)
(* GetDynamicProvisionStorageClass (the same text in the three adapters).  *)
(***************************************************************************)
\* testsuites.GetStorageClass(provisioner, parameters, nil, ns, suffix): the
\* framework names the class after the namespace and the suffix it is given.
GetStorageClass(provisioner, parameters, ns, suffix) ==
  [Name |-> ns \o "-" \o suffix,
   Provisioner |-> provisioner,
   Parameters |-> parameters]

\* what f.LoadFromManifests may hand back for a manifest file
StorageClassObjects ==
  { [Kind |-> "StorageClass", Provisioner |-> "file-prov", Parameters |-> p] :
      p \in {NilMap, MapOf([k \in {"type"} |-> "fast"]),
             MapOf([k \in {FsTypeKey} |-> "xfs"])} }
OtherObject == [Kind |-> "ServiceAccount", Provisioner |-> "", Parameters |-> NilMap]
ManifestItems ==
  {<< >>} \cup {<<o>> : o \in StorageClassObjects \cup {OtherObject}}
          \cup {<<o, OtherObject>> : o \in StorageClassObjects}
ManifestLoads ==
  {[err |-> TRUE, items |-> << >>]} \cup {[err |-> FALSE, items |-> i] : i \in ManifestItems}

\* the loads the whole-program specification tries
CommonLoads ==
  {l \in ManifestLoads :
     l.err \/ Len(l.items) # 1 \/ l.items[1].Parameters = MapOf([k \in {"type"} |-> "fast"])}

Fatal(at, loaded) == [outcome |-> "fatal", at |-> at, loaded |-> loaded]

\* the FromName branch
StorageClassFromName_NoFsType(d, fsType, ns) ==
  GetStorageClass(d.DriverInfo.Name, MakeMap, ns, d.DriverInfo.Name \o "-sc")
StorageClassFromName_NameAsSuffix(d, fsType, ns) ==
  GetStorageClass(d.DriverInfo.Name \o "-sc",
                  IF fsType # "" THEN MapSet(MakeMap, FsTypeKey, fsType) ELSE MakeMap,
                  ns, d.DriverInfo.Name)
StorageClassFromName(d, fsType, ns) ==
  LET provisioner == d.DriverInfo.Name
      suffix == provisioner \o "-sc"
      parameters == IF fsType # "" THEN MapSet(MakeMap, FsTypeKey, fsType) ELSE MakeMap
  IN GetStorageClass(provisioner, parameters, ns, suffix)

\* the fsType injection of the FromFile branch
InjectFsType_Always(sc, fsType) ==
  [sc EXCEPT !.Parameters = MapSet(sc.Parameters, FsTypeKey, fsType)]
InjectFsType(sc, fsType) ==
  IF fsType # ""
  THEN [sc EXCEPT !.Parameters =
          MapSet(IF sc.Parameters.isNil THEN MakeMap ELSE sc.Parameters,
                 FsTypeKey, fsType)]
  ELSE sc

\* the FromFile branch: load, the two Expects, PatchItems, the type assertion
StorageClassFromFile_FirstItem(load, patchErr, fsType) ==
  IF load.err \/ Len(load.items) = 0 THEN Fatal("load", TRUE)
  ELSE IF patchErr THEN Fatal("patch", TRUE)
  ELSE IF load.items[1].Kind # "StorageClass" THEN Fatal("type", TRUE)
  ELSE [outcome |-> "returned", loaded |-> TRUE,
        sc |-> InjectFsType(load.items[1], fsType)]
StorageClassFromFile(load, patchErr, fsType) ==
  IF load.err THEN Fatal("load", TRUE)
  ELSE IF Len(load.items) # 1 THEN Fatal("count", TRUE)
  ELSE IF patchErr THEN Fatal("patch", TRUE)
  ELSE IF load.items[1].Kind # "StorageClass" THEN Fatal("type", TRUE)
  ELSE [outcome |-> "returned", loaded |-> TRUE,
        sc |-> InjectFsType(load.items[1], fsType)]

GetDynamicProvisionStorageClass_PrefersFile(d, fsType, ns, load, patchErr) ==
  IF d.StorageClass.FromFile # ""
  THEN StorageClassFromFile(load, patchErr, fsType)
  ELSE [outcome |-> "returned", loaded |-> FALSE,
        sc |-> StorageClassFromName(d, fsType, ns)]
GetDynamicProvisionStorageClass(d, fsType, ns, load, patchErr) ==
  IF d.StorageClass.FromName
  THEN [outcome |-> "returned", loaded |-> FALSE,
        sc |-> StorageClassFromName(d, fsType, ns)]
  ELSE StorageClassFromFile(load, patchErr, fsType)

(***************************************************************************)
(* The environment: definition files, driver scripts, kubeconfig.          *)
(***************************************************************************)
NilData == [kind |-> "nil"]
Garbage == [kind |-> "garbage"]
DocData(doc) == [kind |-> "doc", doc |-> doc]
JsonMap(kv) == [kind |-> "json", kv |-> kv]

DocByName == [Name |-> "hostpath", SCFromName |-> TRUE, SnapFromName |-> TRUE]
DocByFile ==
  [Name |-> "nfs", SCFromFile |-> "sc.yaml", ClaimSize |-> "1Gi",
   SupportedFsType |-> {"ext4"}]
DocPlain == [Name |-> "hostpath"]
DocNoName == [ClaimSize |-> "1Gi"]

\* the files a --driverdef flag may name
DefFiles ==
  [f \in {"", "missing.yaml", "bad.yaml", "noname.yaml", "plain.yaml",
          "byname.yaml", "byfile.yaml"} |->
     CASE f = "bad.yaml" -> [readable |-> TRUE, data |-> Garbage]
       [] f = "noname.yaml" -> [readable |-> TRUE, data |-> DocData(DocNoName)]
       [] f = "plain.yaml" -> [readable |-> TRUE, data |-> DocData(DocPlain)]
       [] f = "byname.yaml" -> [readable |-> TRUE, data |-> DocData(DocByName)]
       [] f = "byfile.yaml" -> [readable |-> TRUE, data |-> DocData(DocByFile)]
       [] OTHER -> [readable |-> FALSE, data |-> NilData]]

\* the scripts a --external-testdriver or --bash-testdriver flag may name:
\* the shell functions each defines and what the functions echo
Scripts ==
  [s \in {"", "noinfo.sh", "garbage.sh", "noname.sh", "info.sh", "half.sh",
          "full.sh"} |->
     CASE s = "noinfo.sh" ->
            [funcs |-> {"createVolume", "deleteVolume"}, info |-> NilData,
             vol |-> JsonMap([k \in {"server"} |-> "10.0.0.1"])]
       [] s = "garbage.sh" ->
            [funcs |-> {"getDriverInfo"}, info |-> Garbage, vol |-> NilData]
       [] s = "noname.sh" ->
            [funcs |-> {"getDriverInfo"}, info |-> DocData(DocNoName), vol |-> NilData]
       [] s = "info.sh" ->
            [funcs |-> {"getDriverInfo"}, info |-> DocData(DocByName), vol |-> NilData]
       [] s = "half.sh" ->
            [funcs |-> {"getDriverInfo", "createVolume"}, info |-> DocData(DocPlain),
             vol |-> Garbage]
       [] s = "full.sh" ->
            [funcs |-> {"getDriverInfo", "createVolume", "deleteVolume"},
             info |-> DocData(DocByFile),
             vol |-> JsonMap([k \in {"server"} |-> "10.0.0.1"])]
       [] OTHER -> [funcs |-> {}, info |-> NilData, vol |-> NilData]]

\* bash -c ". <script> && <cmdName>": the command succeeds when the script
\* defines the function and the function itself does not fail
ScriptSucceeds(script, cmdName, runOk) == cmdName \in Scripts[script].funcs /\ runOk
ScriptOutput(script, cmdName) ==
  IF cmdName = "getDriverInfo" THEN Scripts[script].info ELSE Scripts[script].vol

\* checkBashFuncExists: "type <bashFunc>" after sourcing the script
checkBashFuncExists(script, bashFunc) == bashFunc \in Scripts[script].funcs

\* UniversalDecoder on the bytes read or echoed.  What the decoder makes of
\* empty input is the library's business: both answers are allowed for.
Decodes(data, emptyOk) ==
  CASE data.kind = "doc" -> TRUE
    [] data.kind = "nil" -> emptyOk
    [] OTHER -> FALSE
Decoded(data, driver) ==
  IF data.kind = "doc" THEN DecodeInto(data.doc, driver) ELSE driver

\* setCurrentNameSpace: kubectl config set-context --namespace=<namespace>;
\* when kubectl fails the kubeconfig keeps its namespace
setCurrentNameSpace_Unchanged(kube, namespace, kubectlOk) == kube
setCurrentNameSpace(kube, namespace, kubectlOk) ==
  IF kubectlOk THEN namespace ELSE kube

(***************************************************************************)
(* State.                                                                  *)
(***************************************************************************)
VARIABLES
  phase,                    \* "flags": flag.Parse is calling Set; "run": RunSpecs; "exited"
  kubeNamespace,            \* the namespace of the active kubeconfig context
  externalRunCustomTestDriver,  \* external.RunCustomTestDriver
  extRunCustomTestDriver,   \* external_testdriver.RunCustomTestDriver
  bashRunCustomTestDriver,  \* externalBash.RunCustomTestDriver
  scriptName,               \* external_testdriver.scriptName
  bashScriptName,           \* externalBash.scriptName
  currentNameSpace,         \* external_testdriver.currentNameSpace
  currentDriver,            \* external_testdriver.currentDriver
  validTestDriver,          \* external_testdriver.validTestDriver
  preprovisionedVolumeTestDriver,  \* external_testdriver, package level
  preprovisionedPVTestDriver,      \* external_testdriver, package level
  suites,                   \* the drivers testsuites.DefineTestSuite was called for
  last,                     \* the last operation: its arguments and how it ended
  calls,                    \* the execCommand invocations in progress, by goroutine
  test                      \* the ginkgo test case that is running

vars ==
  <<phase, kubeNamespace, externalRunCustomTestDriver, extRunCustomTestDriver,
    bashRunCustomTestDriver, scriptName, bashScriptName, currentNameSpace,
    currentDriver, validTestDriver, preprovisionedVolumeTestDriver,
    preprovisionedPVTestDriver, suites, last, calls, test>>

\* no execCommand is in progress in its own goroutine; no test case is running
NoCalls == << >>
NoTest == [pc |-> "none"]

extGlobals ==
  <<extRunCustomTestDriver, scriptName, currentNameSpace, currentDriver,
    validTestDriver, preprovisionedVolumeTestDriver, preprovisionedPVTestDriver>>
bashGlobals == <<bashRunCustomTestDriver, bashScriptName>>

NoDriver == [isNil |-> TRUE, def |-> DefaultDriverDefinition]
PointerTo(def) == [isNil |-> FALSE, def |-> def]
NoExec == [called |-> FALSE]
NoOp == [op |-> "none"]

\* a registered driver: the adapter it came from, its definition, the script
\* it was read from, and (bashDriver only) its two capability fields
Driver(kind, def, script, vol, pv) ==
  [kind |-> kind, def |-> def, script |-> script,
   preprovisionedVolumeTestDriver |-> vol, preprovisionedPVTestDriver |-> pv]

Init ==
  /\ phase = "flags"
  /\ kubeNamespace \in UserNamespaces
  /\ externalRunCustomTestDriver = TRUE
  /\ extRunCustomTestDriver = TRUE
  /\ bashRunCustomTestDriver = TRUE
  /\ scriptName = ""
  /\ bashScriptName = ""
  /\ currentNameSpace = "default"
  /\ currentDriver = NoDriver
  /\ validTestDriver = FALSE
  /\ preprovisionedVolumeTestDriver = FALSE
  /\ preprovisionedPVTestDriver = FALSE
  /\ suites = << >>
  /\ last = NoOp
  /\ calls = NoCalls
  /\ test = NoTest

\* how a Set call ended: nil, an error returned to the flag package (which
\* prints it and exits), or framework.Failf
SetEnds(kind, filename, outcome, log, exec) ==
  /\ last' = [op |-> "Set", kind |-> kind, filename |-> filename,
              outcome |-> outcome, log |-> log, exec |-> exec]
  /\ phase' = IF outcome = "ok" THEN phase ELSE "exited"

(***************************************************************************)
(* --driverdef: DriverDefParameter.Set and loadDriverDefinition.           *)
(***************************************************************************)
\* loadDriverDefinition: [err, driver]
loadDriverDefinition(filename, emptyOk) ==
  IF filename = "" THEN [err |-> TRUE, driver |-> DefaultDriverDefinition]
  ELSE IF ~DefFiles[filename].readable
  THEN [err |-> TRUE, driver |-> DefaultDriverDefinition]
  ELSE IF ~Decodes(DefFiles[filename].data, emptyOk)
  THEN [err |-> TRUE, driver |-> DefaultDriverDefinition]
  ELSE [err |-> FALSE,
        driver |-> Decoded(DefFiles[filename].data, DefaultDriverDefinition)]

YamlSet(filename) ==
  /\ phase = "flags"
  /\ Len(suites) < MaxDrivers
  /\ externalRunCustomTestDriver' = FALSE
  /\ \E emptyOk \in BOOLEAN :
       LET r == loadDriverDefinition(filename, emptyOk) IN
         IF r.err THEN
           /\ SetEnds("yaml", filename, "error", << >>, NoExec)
           /\ UNCHANGED suites
         ELSE IF r.driver.DriverInfo.Name = "" THEN
           /\ SetEnds("yaml", filename, "error", << >>, NoExec)
           /\ UNCHANGED suites
         ELSE
           /\ suites' = Append(suites, Driver("yaml", r.driver, "", FALSE, FALSE))
           /\ SetEnds("yaml", filename, "ok", << >>, NoExec)
  /\ UNCHANGED <<calls, test>>
  /\ UNCHANGED <<kubeNamespace, extGlobals, bashGlobals>>

(***************************************************************************)
(* The earlier --driverdef adapter (type DriverDefinition): StorageClass   *)
(* is a string, "default" by default, and Set does not look at the name.   *)
(***************************************************************************)
LegacyDefaultDriverDefinition ==
  [DriverInfo |-> [Name |-> "", SupportedFsType |-> {""}],
   ShortName |-> "",
   StorageClass |-> "default",
   ClaimSize |-> "5Gi",
   ClientNodeName |-> ""]

LegacyDecodeInto(doc, driver) ==
  [DriverInfo |->
     [Name |-> DocGet(doc, "Name", driver.DriverInfo.Name),
      SupportedFsType |->
        driver.DriverInfo.SupportedFsType \cup DocGet(doc, "SupportedFsType", {})],
   ShortName |-> DocGet(doc, "ShortName", driver.ShortName),
   StorageClass |-> DocGet(doc, "StorageClass", driver.StorageClass),
   ClaimSize |-> DocGet(doc, "ClaimSize", driver.ClaimSize),
   ClientNodeName |-> DocGet(doc, "ClientNodeName", driver.ClientNodeName)]

\* the files a --driverdef flag of the earlier adapter may name
LegacyDefFiles ==
  [f \in {"", "missing.yaml", "bad.yaml", "noname.yaml", "plain.yaml",
          "nosc.yaml", "scfile.yaml"} |->
     CASE f = "bad.yaml" -> [readable |-> TRUE, data |-> Garbage]
       [] f = "noname.yaml" -> [readable |-> TRUE, data |-> DocData(DocNoName)]
       [] f = "plain.yaml" -> [readable |-> TRUE, data |-> DocData(DocPlain)]
       [] f = "nosc.yaml" ->
            [readable |-> TRUE,
             data |-> DocData([Name |-> "hostpath", StorageClass |-> ""])]
       [] f = "scfile.yaml" ->
            [readable |-> TRUE,
             data |-> DocData([Name |-> "nfs", StorageClass |-> "sc.yaml",
                               ClaimSize |-> "1Gi", SupportedFsType |-> {"ext4"}])]
       [] OTHER -> [readable |-> FALSE, data |-> NilData]]

LegacyLoadDriverDefinition(filename, emptyOk) ==
  IF filename = "" THEN [err |-> TRUE, driver |-> LegacyDefaultDriverDefinition]
  ELSE IF ~LegacyDefFiles[filename].readable
  THEN [err |-> TRUE, driver |-> LegacyDefaultDriverDefinition]
  ELSE IF ~Decodes(LegacyDefFiles[filename].data, emptyOk)
  THEN [err |-> TRUE, driver |-> LegacyDefaultDriverDefinition]
  ELSE LET data == LegacyDefFiles[filename].data
       IN [err |-> FALSE,
           driver |-> IF data.kind = "doc"
                      THEN LegacyDecodeInto(data.doc, LegacyDefaultDriverDefinition)
                      ELSE LegacyDefaultDriverDefinition]

\* DriverDefParameter.Set of the earlier adapter: no check of DriverInfo.Name
LegacySet(filename) ==
  /\ phase = "flags"
  /\ Len(suites) < MaxDrivers
  /\ externalRunCustomTestDriver' = FALSE
  /\ \E emptyOk \in BOOLEAN :
       LET r == LegacyLoadDriverDefinition(filename, emptyOk) IN
         IF r.err THEN
           /\ SetEnds("legacy", filename, "error", << >>, NoExec)
           /\ UNCHANGED suites
         ELSE
           /\ suites' = Append(suites, Driver("legacy", r.driver, "", FALSE, FALSE))
           /\ SetEnds("legacy", filename, "ok", << >>, NoExec)
  /\ UNCHANGED <<calls, test>>
  /\ UNCHANGED <<kubeNamespace, extGlobals, bashGlobals>>

\* DriverDefinition.SkipUnsupportedTest: one switch, on the volume type
LegacySkipUnsupportedTest(d, pattern) ==
  IF pattern.VolType = DynamicPV /\ d.StorageClass # "" THEN Proceed
  ELSE SkipVolType

(***************************************************************************)
(* execCommand of the two shell-script adapters.                           *)
(***************************************************************************)
\* how the environment answers during one execCommand: kubectl reading the
\* namespace, kubectl setting it, the script function, kubectl setting it again
ExecEnvs == [get : BOOLEAN, set1 : BOOLEAN, run : BOOLEAN, set2 : BOOLEAN]

Exec(nsBefore, nsRequested, ran, nsDuring, ok, err, nsAfter, data) ==
  [called |-> TRUE, nsBefore |-> nsBefore, nsRequested |-> nsRequested,
   ran |-> ran, nsDuring |-> nsDuring, ok |-> ok, err |-> err,
   nsAfter |-> nsAfter, data |-> data]

\* driver-call.go: the namespace is set to the package variable
\* currentNameSpace, the script runs whatever kubectl answered, and only when
\* the script failed is the namespace set again, to "default".
ExtExecCommand(kube, curNs, pluginName, cmdName, env) ==
  LET during == setCurrentNameSpace(kube, curNs, env.set1)
      ok == ScriptSucceeds(pluginName, cmdName, env.run)
  IN IF ok
     THEN Exec(kube, curNs, TRUE, during, TRUE, FALSE, during,
               ScriptOutput(pluginName, cmdName))
     ELSE Exec(kube, curNs, TRUE, during, FALSE, TRUE,
               setCurrentNameSpace(during, "default", env.set2), NilData)

\* externalBash: read the namespace, set the one to use, run, set the one
\* read back; each kubectl failure ends the call with an error
BashExecCommand_RestoresOnFailureOnly(kube, pluginName, cmdName, namespaceToUse, env) ==
  IF ~env.get
  THEN Exec(kube, namespaceToUse, FALSE, kube, FALSE, TRUE, kube, NilData)
  ELSE
    LET current == kube
        use == IF namespaceToUse = "" THEN current ELSE namespaceToUse
    IN IF ~env.set1
       THEN Exec(kube, use, FALSE, kube, FALSE, TRUE, kube, NilData)
       ELSE
         IF ScriptSucceeds(pluginName, cmdName, env.run)
         THEN Exec(kube, use, TRUE, use, TRUE, FALSE, use,
                   ScriptOutput(pluginName, cmdName))
         ELSE Exec(kube, use, TRUE, use, FALSE, TRUE,
                   setCurrentNameSpace(use, current, env.set2), NilData)
BashExecCommand(kube, pluginName, cmdName, namespaceToUse, env) ==
  IF ~env.get
  THEN Exec(kube, namespaceToUse, FALSE, kube, FALSE, TRUE, kube, NilData)
  ELSE
    LET current == kube
        use == IF namespaceToUse = "" THEN current ELSE namespaceToUse
    IN IF ~env.set1
       THEN Exec(kube, use, FALSE, kube, FALSE, TRUE, kube, NilData)
       ELSE
         LET ok == ScriptSucceeds(pluginName, cmdName, env.run)
             after == setCurrentNameSpace(use, current, env.set2)
         IN IF ~env.set2 THEN Exec(kube, use, TRUE, use, ok, TRUE, after, NilData)
            ELSE IF ~ok THEN Exec(kube, use, TRUE, use, FALSE, TRUE, after, NilData)
            ELSE Exec(kube, use, TRUE, use, TRUE, FALSE, after,
                      ScriptOutput(pluginName, cmdName))

\* the shell commands a Set call issues, in order
TypeCall(bashFunc) == [call |-> "checkBashFuncExists", fn |-> bashFunc]
ExecCall(cmdName) == [call |-> "execCommand", fn |-> cmdName]
ExecLog(exec, cmdName) == IF exec.called /\ exec.ran THEN <<ExecCall(cmdName)>> ELSE << >>
\* checkBashFuncExists("createVolume") && checkBashFuncExists("deleteVolume")
VolumeChecksLog(script) ==
  <<TypeCall("createVolume")>> \o
  (IF checkBashFuncExists(script, "createVolume")
   THEN <<TypeCall("deleteVolume")>> ELSE << >>)
VolumeChecks(script) ==
  checkBashFuncExists(script, "createVolume") /\ checkBashFuncExists(script, "deleteVolume")

(***************************************************************************)
(* --external-testdriver: DriverCall.Set, getDriverDefinition,             *)
(* getTestDriverType.                                                      *)
(***************************************************************************)
\* [err, driver, exec]: the script's getDriverInfo is run first
ExtGetDriverDefinition(filename, kube, curNs, env, emptyOk) ==
  IF filename = ""
  THEN [err |-> TRUE, driver |-> DefaultDriverDefinition, exec |-> NoExec]
  ELSE
    LET exec == ExtExecCommand(kube, curNs, filename, "getDriverInfo", env)
    IN [err |-> ~Decodes(exec.data, emptyOk),
        driver |-> Decoded(exec.data, DefaultDriverDefinition),
        exec |-> exec]

ExtSet(filename) ==
  /\ phase = "flags"
  /\ Len(suites) < MaxDrivers
  /\ extRunCustomTestDriver' = FALSE
  /\ scriptName' = filename
  /\ \E env \in ExecEnvs, emptyOk \in BOOLEAN :
       LET g == ExtGetDriverDefinition(filename, kubeNamespace, currentNameSpace,
                                       env, emptyOk)
           valid == checkBashFuncExists(filename, "getDriverInfo")
           vol == VolumeChecks(filename)
           log == (IF g.exec.called THEN ExecLog(g.exec, "getDriverInfo") ELSE << >>)
                    \o <<TypeCall("getDriverInfo")>> \o VolumeChecksLog(filename)
       IN /\ kubeNamespace' = IF g.exec.called THEN g.exec.nsAfter ELSE kubeNamespace
          /\ currentDriver' = IF g.err THEN currentDriver ELSE PointerTo(g.driver)
          \* getTestDriverType
          /\ validTestDriver' = valid
          /\ preprovisionedVolumeTestDriver' = vol
          /\ preprovisionedPVTestDriver' = vol
          /\ IF g.err THEN
               /\ SetEnds("ext", filename, "error", log, g.exec)
               /\ UNCHANGED suites
             ELSE IF ~valid THEN
               /\ SetEnds("ext", filename, "failf", log, g.exec)
               /\ UNCHANGED suites
             ELSE IF g.driver.DriverInfo.Name = "" THEN
               /\ SetEnds("ext", filename, "error", log, g.exec)
               /\ UNCHANGED suites
             ELSE
               /\ suites' = Append(suites, Driver("ext", g.driver, filename, FALSE, FALSE))
               /\ SetEnds("ext", filename, "ok", log, g.exec)
  /\ UNCHANGED <<calls, test>>
  /\ UNCHANGED <<externalRunCustomTestDriver, currentNameSpace, bashGlobals>>

(***************************************************************************)
(* --bash-testdriver: BashDriverParameter.Set and getDriverDefinition.     *)
(***************************************************************************)
\* [err, driver, exec, vol, log]
BashGetDriverDefinition(filename, kube, env, emptyOk) ==
  IF filename = ""
  THEN [err |-> TRUE, driver |-> DefaultDriverDefinition, exec |-> NoExec,
        vol |-> FALSE, log |-> << >>]
  ELSE
    LET exec == BashExecCommand(kube, filename, "getDriverInfo", "", env)
    IN IF exec.err
       THEN [err |-> TRUE, driver |-> DefaultDriverDefinition, exec |-> exec,
             vol |-> FALSE, log |-> ExecLog(exec, "getDriverInfo")]
       ELSE [err |-> ~Decodes(exec.data, emptyOk),
             driver |-> Decoded(exec.data, DefaultDriverDefinition),
             exec |-> exec,
             vol |-> VolumeChecks(filename),
             log |-> ExecLog(exec, "getDriverInfo") \o VolumeChecksLog(filename)]

BashSet(filename) ==
  /\ phase = "flags"
  /\ Len(suites) < MaxDrivers
  /\ bashRunCustomTestDriver' = FALSE
  /\ bashScriptName' = filename
  /\ IF ~checkBashFuncExists(filename, "getDriverInfo") THEN
       /\ SetEnds("bash", filename, "error", <<TypeCall("getDriverInfo")>>, NoExec)
       /\ UNCHANGED <<suites, kubeNamespace>>
     ELSE
       \E env \in ExecEnvs, emptyOk \in BOOLEAN :
         LET g == BashGetDriverDefinition(filename, kubeNamespace, env, emptyOk)
             log == <<TypeCall("getDriverInfo")>> \o g.log
         IN /\ kubeNamespace' = IF g.exec.called THEN g.exec.nsAfter ELSE kubeNamespace
            /\ IF g.err THEN
                 /\ SetEnds("bash", filename, "error", log, g.exec)
                 /\ UNCHANGED suites
               ELSE IF g.driver.DriverInfo.Name = "" THEN
                 /\ SetEnds("bash", filename, "error", log, g.exec)
                 /\ UNCHANGED suites
               ELSE
                 /\ suites' = Append(suites, Driver("bash", g.driver, filename, g.vol, g.vol))
                 /\ SetEnds("bash", filename, "ok", log, g.exec)
  /\ UNCHANGED <<calls, test>>
  /\ UNCHANGED <<externalRunCustomTestDriver, extGlobals>>

(***************************************************************************)
(* certify.Test and RunCustomTestDriver: the drivers written in Go.        *)
(***************************************************************************)
\* utils.CSITestDrivers: registry name -> the DriverInfo.Name its constructor sets
CSITestDrivers ==
  [n \in {"hostpath", "nfs"} |-> IF n = "hostpath" THEN "csi-hostpath" ELSE "csi-nfsplugin"]
\* values of --testdriver
TestDriverFlags == {"", "hostpath", "nfs", "cinder"}

CodeDriver(n) ==
  Driver(n, [DefaultDriverDefinition EXCEPT !.DriverInfo.Name = CSITestDrivers[n]],
         "", FALSE, FALSE)

\* framework.Failf("Given TestDriver %s, does not exist", customTestDriver)
DoesNotExist(customTestDriver) ==
  "Given TestDriver " \o customTestDriver \o ", does not exist"

RunCustomTestDriver_IgnoresName(customTestDriver, order) ==
  [failf |-> FALSE, diagnostic |-> "",
   drivers |-> [k \in DOMAIN order |-> CodeDriver(order[k])]]

RunCustomTestDriver_NoCheck(customTestDriver, order) ==
  IF customTestDriver = ""
  THEN [failf |-> FALSE, diagnostic |-> "",
        drivers |-> [k \in DOMAIN order |-> CodeDriver(order[k])]]
  ELSE IF customTestDriver \notin DOMAIN CSITestDrivers
  THEN [failf |-> FALSE, diagnostic |-> "", drivers |-> << >>]
  ELSE [failf |-> FALSE, diagnostic |-> "",
        drivers |-> <<CodeDriver(customTestDriver)>>]

\* RunCustomTestDriver(customTestDriver): [failf, diagnostic, drivers]; the
\* registry is a Go map, ranged over in any order
RunCustomTestDriver(customTestDriver, order) ==
  IF customTestDriver = ""
  THEN [failf |-> FALSE, diagnostic |-> "",
        drivers |-> [k \in DOMAIN order |-> CodeDriver(order[k])]]
  ELSE IF customTestDriver \notin DOMAIN CSITestDrivers
  THEN [failf |-> TRUE, diagnostic |-> DoesNotExist(customTestDriver),
        drivers |-> << >>]
  ELSE [failf |-> FALSE, diagnostic |-> "",
        drivers |-> <<CodeDriver(customTestDriver)>>]

Test(customTestDriver) ==
  /\ phase = "flags"
  /\ \E order \in {<<"hostpath", "nfs">>, <<"nfs", "hostpath">>} :
       LET called == externalRunCustomTestDriver /\ extRunCustomTestDriver
           r == IF called THEN RunCustomTestDriver(customTestDriver, order)
                ELSE [failf |-> FALSE, diagnostic |-> "", drivers |-> << >>]
       IN /\ suites' = suites \o r.drivers
          /\ phase' = IF r.failf THEN "exited" ELSE "run"
          /\ last' = [op |-> "Test", customTestDriver |-> customTestDriver,
                      called |-> called,
                      outcome |-> IF r.failf THEN "failf" ELSE "ok",
                      diagnostic |-> r.diagnostic,
                      constructed |-> r.drivers]
  /\ UNCHANGED <<calls, test>>
  /\ UNCHANGED <<kubeNamespace, externalRunCustomTestDriver, extGlobals, bashGlobals>>

(***************************************************************************)
(* What the test suites call on a registered driver during RunSpecs.       *)
(***************************************************************************)
\* The specs run one after another: a driver operation is called when the
\* previous call has returned and its result has been consumed.
DriverOps ==
  {"SkipUnsupportedTest", "GetDynamicProvisionStorageClass", "CreateVolume",
   "GetSnapshotClass", "GetClaimSize", "PrepareTest",
   "GetPersistentVolumeSource"}
Ready == phase = "run" /\ last.op \notin DriverOps

ShellKinds == {"ext", "bash"}
DefinitionKinds == {"yaml", "ext", "bash"}

\* the SkipUnsupportedTest of driver i in the present state
SkipOutcome(i, pattern) ==
  LET d == suites[i] IN
    CASE d.kind = "yaml" -> YamlSkipUnsupportedTest(d.def, pattern)
      [] d.kind = "ext" ->
           ExtSkipUnsupportedTest(d.def, pattern, preprovisionedPVTestDriver,
                                  preprovisionedVolumeTestDriver)
      [] d.kind = "bash" -> BashSkipUnsupportedTest(d, pattern)
      [] d.kind = "legacy" -> LegacySkipUnsupportedTest(d.def, pattern)
      \* hostpath_driver.go: hostpathCSIDriver skips nothing, nfsDriver skips DynamicPV
      [] d.kind = "nfs" -> IF pattern.VolType = DynamicPV THEN SkipVolType ELSE Proceed
      [] OTHER -> Proceed

SkipUnsupportedTest(i, pattern) ==
  /\ Ready
  /\ last' = [op |-> "SkipUnsupportedTest", driver |-> i, pattern |-> pattern,
              result |-> SkipOutcome(i, pattern)]
  /\ UNCHANGED <<calls, test>>
  /\ UNCHANGED <<phase, kubeNamespace, externalRunCustomTestDriver, extGlobals,
                 bashGlobals, suites>>

GetDynamicProvisionStorageClassCall(i, fsType, ns, load, patchErr) ==
  /\ Ready
  /\ suites[i].kind \in DefinitionKinds
  /\ last' = [op |-> "GetDynamicProvisionStorageClass", driver |-> i,
              fsType |-> fsType, ns |-> ns, load |-> load, patchErr |-> patchErr,
              result |-> GetDynamicProvisionStorageClass(suites[i].def, fsType, ns,
                                                         load, patchErr)]
  /\ UNCHANGED <<calls, test>>
  /\ UNCHANGED <<phase, kubeNamespace, externalRunCustomTestDriver, extGlobals,
                 bashGlobals, suites>>

\* json.Unmarshal of the createVolume output into a map[string]string
UnmarshalOk(data) == data.kind = "json"
\* response := make(map[string]string); err := json.Unmarshal(output, &response)
Unmarshal_IgnoresError(data) ==
  [err |-> FALSE, response |-> IF UnmarshalOk(data) THEN data.kv ELSE EmptyKV]
Unmarshal(data) ==
  IF UnmarshalOk(data) THEN [err |-> FALSE, response |-> data.kv]
  ELSE [err |-> TRUE, response |-> EmptyKV]

\* driver-call.go CreateVolume: panics when the output is no JSON string map
ExtCreateVolume(i, ns) ==
  /\ Ready
  /\ suites[i].kind = "ext"
  /\ currentNameSpace' = ns
  /\ \E env \in ExecEnvs :
       LET exec == ExtExecCommand(kubeNamespace, ns, scriptName, "createVolume", env)
       IN /\ kubeNamespace' = exec.nsAfter
          /\ last' = [op |-> "CreateVolume", driver |-> i, ns |-> ns, exec |-> exec,
                      result |-> LET u == Unmarshal(exec.data)
                                 IN IF ~u.err
                                    THEN [outcome |-> "returned",
                                          volumeAttrib |-> u.response]
                                    ELSE [outcome |-> "panic",
                                          volumeAttrib |-> EmptyKV]]
  /\ UNCHANGED <<calls, test>>
  /\ UNCHANGED <<phase, externalRunCustomTestDriver, extRunCustomTestDriver,
                 scriptName, currentDriver, validTestDriver,
                 preprovisionedVolumeTestDriver, preprovisionedPVTestDriver,
                 bashGlobals, suites>>

\* externalBash CreateVolume: Failf on an execCommand error, panic on bad output
BashCreateVolume(i, ns) ==
  /\ Ready
  /\ suites[i].kind = "bash"
  /\ \E env \in ExecEnvs :
       LET exec == BashExecCommand(kubeNamespace, bashScriptName, "createVolume", ns, env)
       IN /\ kubeNamespace' = exec.nsAfter
          /\ last' = [op |-> "CreateVolume", driver |-> i, ns |-> ns, exec |-> exec,
                      result |-> IF exec.err
                                 THEN [outcome |-> "failf", volumeAttrib |-> EmptyKV]
                                 ELSE LET u == Unmarshal(exec.data)
                                      IN IF ~u.err
                                         THEN [outcome |-> "returned",
                                               volumeAttrib |-> u.response]
                                         ELSE [outcome |-> "panic",
                                               volumeAttrib |-> EmptyKV]]
  /\ UNCHANGED <<calls, test>>
  /\ UNCHANGED <<phase, externalRunCustomTestDriver, extGlobals, bashGlobals, suites>>

\* the spec that made the last call goes on and ends; the next one starts
TestCaseEnds ==
  /\ phase = "run"
  /\ last.op \in DriverOps
  /\ last' = NoOp
  /\ UNCHANGED <<calls, test>>
  /\ UNCHANGED <<phase, kubeNamespace, externalRunCustomTestDriver, extGlobals,
                 bashGlobals, suites>>

DriverDefFlags == DOMAIN DefFiles
ScriptFlags == DOMAIN Scripts

Next ==
  \/ \E filename \in DriverDefFlags : YamlSet(filename)
  \/ \E filename \in ScriptFlags : ExtSet(filename)
  \/ \E filename \in ScriptFlags : BashSet(filename)
  \/ \E customTestDriver \in TestDriverFlags : Test(customTestDriver)
  \/ \E i \in DOMAIN suites, pattern \in TestPatterns : SkipUnsupportedTest(i, pattern)
  \/ \E i \in DOMAIN suites, fsType \in FsTypes, ns \in TestNamespaces,
        load \in CommonLoads, patchErr \in BOOLEAN :
       GetDynamicProvisionStorageClassCall(i, fsType, ns, load, patchErr)
  \/ \E i \in DOMAIN suites, ns \in TestNamespaces : ExtCreateVolume(i, ns)
  \/ \E i \in DOMAIN suites, ns \in TestNamespaces : BashCreateVolume(i, ns)
  \/ TestCaseEnds

Spec == Init /\ [][Next]_vars

(***************************************************************************)
(* A second specification for the operations that depend on the driver's   *)
(* definition alone: it starts in RunSpecs with one registered driver      *)
(* whose definition is any of Definitions, and calls SkipUnsupportedTest   *)
(* and GetDynamicProvisionStorageClass with every pattern, file system     *)
(* type and manifest content.                                              *)
(***************************************************************************)
Definitions ==
  [DriverInfo : [Name : {"hostpath", "nfs"}, SupportedFsType : {{""}}],
   StorageClass : [FromName : BOOLEAN, FromFile : {"", "sc.yaml"}],
   SnapshotClass : [FromName : BOOLEAN],
   ClaimSize : {"5Gi"},
   ClientNodeName : {""}]

\* the state RunSpecs starts in after one Set call of the given adapter
\* registered a driver with definition def (vol: the script defines both
\* createVolume and deleteVolume)
DriverInit ==
  \E kind \in DefinitionKinds, def \in Definitions, vol \in BOOLEAN :
    LET script == IF kind = "yaml" THEN "" ELSE IF vol THEN "full.sh" ELSE "info.sh"
    IN /\ (kind = "yaml" => ~vol)
       /\ phase = "run"
       /\ kubeNamespace \in UserNamespaces
       /\ externalRunCustomTestDriver = (kind # "yaml")
       /\ extRunCustomTestDriver = (kind # "ext")
       /\ bashRunCustomTestDriver = (kind # "bash")
       /\ scriptName = IF kind = "ext" THEN script ELSE ""
       /\ bashScriptName = IF kind = "bash" THEN script ELSE ""
       /\ currentNameSpace = "default"
       /\ currentDriver = IF kind = "ext" THEN PointerTo(def) ELSE NoDriver
       /\ validTestDriver = (kind = "ext")
       /\ preprovisionedVolumeTestDriver = (kind = "ext" /\ vol)
       /\ preprovisionedPVTestDriver = (kind = "ext" /\ vol)
       /\ suites = << Driver(kind, def, script, kind = "bash" /\ vol, kind = "bash" /\ vol) >>
       /\ last = NoOp
       /\ calls = NoCalls
       /\ test = NoTest

DriverNext ==
  \/ \E i \in DOMAIN suites, pattern \in TestPatterns : SkipUnsupportedTest(i, pattern)
  \/ \E i \in DOMAIN suites, fsType \in FsTypes, ns \in TestNamespaces,
        load \in ManifestLoads, patchErr \in BOOLEAN :
       GetDynamicProvisionStorageClassCall(i, fsType, ns, load, patchErr)
  \/ TestCaseEnds

DriverSpec == DriverInit /\ [][DriverNext]_vars

(***************************************************************************)
(* Properties of SkipUnsupportedTest and GetDynamicProvisionStorageClass,  *)
(* checked under DriverSpec.                                               *)
(***************************************************************************)

\* C1: a DynamicPV pattern is skipped for the volume-type reason exactly when
\* the definition's storage-class strategy is empty (FromName false and
\* FromFile ""); with an empty strategy a DynamicPV pattern never proceeds.
C1_DynamicPVSkippedIffNoStrategy ==
  (last.op = "SkipUnsupportedTest" /\ last.pattern.VolType = DynamicPV
     /\ suites[last.driver].kind \in DefinitionKinds)
  => LET sc == suites[last.driver].def.StorageClass
         empty == ~sc.FromName /\ sc.FromFile = ""
     IN /\ (last.result = SkipVolType) <=> empty
        /\ empty => last.result.outcome # "proceed"

C1_Witness ==
  /\ last.op = "SkipUnsupportedTest"
  /\ last.pattern.VolType = DynamicPV
  /\ ~suites[last.driver].def.StorageClass.FromName
  /\ suites[last.driver].def.StorageClass.FromFile = ""
  /\ last.result = SkipVolType

\* C2: with StorageClass.FromName true, the parameters of the class returned
\* for file-system type t hold the key csi.storage.k8s.io/fstype with value t
\* exactly when t is not empty, and hold no other key.
C2_FromNameParameters ==
  (last.op = "GetDynamicProvisionStorageClass"
     /\ suites[last.driver].def.StorageClass.FromName)
  => /\ last.result.outcome = "returned"
     /\ ~last.result.sc.Parameters.isNil
     /\ LET kv == last.result.sc.Parameters.kv
        IN /\ (FsTypeKey \in DOMAIN kv) <=> (last.fsType # "")
           /\ DOMAIN kv \subseteq {FsTypeKey}
           /\ \A k \in DOMAIN kv : kv[k] = last.fsType

C2_Witness ==
  /\ last.op = "GetDynamicProvisionStorageClass"
  /\ suites[last.driver].def.StorageClass.FromName
  /\ last.fsType = "ext4"
  /\ last.result.outcome = "returned"
  /\ DOMAIN last.result.sc.Parameters.kv = {FsTypeKey}
  /\ last.result.sc.Parameters.kv[FsTypeKey] = "ext4"

C4_FatalUnlessOneObject ==
  (last.op = "GetDynamicProvisionStorageClass"
     /\ ~suites[last.driver].def.StorageClass.FromName
     /\ Len(last.load.items) # 1)
  => /\ last.result.outcome = "fatal"
     /\ last.result.outcome \notin {"skip", "returned"}

C4_Witness ==
  /\ last.op = "GetDynamicProvisionStorageClass"
  /\ ~suites[last.driver].def.StorageClass.FromName
  /\ ~last.load.err
  /\ Len(last.load.items) = 2
  /\ last.load.items[1].Kind = "StorageClass"
  /\ last.result.outcome = "fatal"

\* C5: on the load-from-file path with exactly one loaded object, the call
\* fails fatally if the object is no StorageClass; otherwise the class it
\* returns has the file's parameters unchanged, except that the key
\* csi.storage.k8s.io/fstype is set to the requested fsType exactly when
\* fsType is not empty (the map is created when the file had none).
C5_OneObjectFromFile ==
  (last.op = "GetDynamicProvisionStorageClass"
     /\ ~suites[last.driver].def.StorageClass.FromName
     /\ ~last.load.err /\ Len(last.load.items) = 1)
  => LET obj == last.load.items[1]
         res == last.result
     IN /\ obj.Kind # "StorageClass" => res.outcome = "fatal"
        /\ (obj.Kind = "StorageClass" /\ ~last.patchErr) => res.outcome = "returned"
        /\ res.outcome = "returned" =>
             /\ obj.Kind = "StorageClass"
             /\ res.sc.Provisioner = obj.Provisioner
             /\ last.fsType = "" => res.sc.Parameters = obj.Parameters
             /\ last.fsType # "" =>
                  /\ ~res.sc.Parameters.isNil
                  /\ DOMAIN res.sc.Parameters.kv =
                       DOMAIN obj.Parameters.kv \cup {FsTypeKey}
                  /\ res.sc.Parameters.kv[FsTypeKey] = last.fsType
                  /\ \A k \in DOMAIN obj.Parameters.kv \ {FsTypeKey} :
                       res.sc.Parameters.kv[k] = obj.Parameters.kv[k]

C5_Witness ==
  /\ last.op = "GetDynamicProvisionStorageClass"
  /\ ~suites[last.driver].def.StorageClass.FromName
  /\ ~last.load.err /\ Len(last.load.items) = 1
  /\ last.load.items[1].Kind = "StorageClass"
  /\ last.load.items[1].Parameters.isNil
  /\ last.fsType = "ext4"
  /\ last.result.outcome = "returned"
  /\ last.result.sc.Parameters = MapOf([k \in {FsTypeKey} |-> "ext4"])

C7_PreprovisionedPVIffDeclared ==
  last.op = "SkipUnsupportedTest"
  => LET d == suites[last.driver]
     IN /\ (d.kind \in ShellKinds /\ last.pattern.VolType = PreprovisionedPV)
             => ((last.result # SkipVolType)
                   <=> {"createVolume", "deleteVolume"} \subseteq Scripts[d.script].funcs)
        /\ (d.kind = "yaml" /\ last.pattern.VolType # DynamicPV)
             => last.result = SkipVolType

\* C8: what SkipUnsupportedTest answers for a registered driver and a pattern
\* depends on that driver's own definition and the pattern alone: no step
\* after which the program goes on (another driver being registered, any
\* other operation) changes it, and the answer is always to proceed or to
\* skip.
C8_OutcomeIndependentOfOtherDrivers ==
  [][\A i \in DOMAIN suites, pattern \in TestPatterns :
       /\ SkipOutcome(i, pattern).outcome \in {"proceed", "skip"}
       /\ (phase' # "exited" /\ i \in DOMAIN suites' /\ suites'[i] = suites[i])
            => SkipOutcome(i, pattern)' = SkipOutcome(i, pattern)]_vars

\* C9: after every execCommand that has returned, with or without an error,
\* the namespace of the kubeconfig context is the one it was before the call.
C9_NamespaceRestored ==
  (last.op \in {"Set", "CreateVolume"} /\ last.exec.called)
  => last.exec.nsAfter = last.exec.nsBefore

\* C10: in a Set call of a shell-script adapter, the check that the script
\* defines getDriverInfo comes before the first execCommand of that function;
\* when the function is absent the call ends in a fatal error and defines no
\* test suite.
C10_PresenceCheckedBeforeInvoked ==
  (last.op = "Set" /\ last.kind \in ShellKinds)
  => /\ "getDriverInfo" \in Scripts[last.filename].funcs
          => \A n \in DOMAIN last.log :
               last.log[n] = ExecCall("getDriverInfo")
                 => \E m \in 1..(n - 1) : last.log[m] = TypeCall("getDriverInfo")
     /\ "getDriverInfo" \notin Scripts[last.filename].funcs
          => /\ last.outcome \in {"error", "failf"}
             /\ phase = "exited"
             /\ \A i \in DOMAIN suites :
                  ~(suites[i].kind = last.kind /\ suites[i].script = last.filename)

\* C11: CreateVolume of a shell-script driver returns a test volume only when
\* the script's createVolume succeeded and echoed a JSON string map, and the
\* volume's attributes are then exactly that map; when the invocation fails
\* or the output is no such map the call ends fatally (panic or Failf) and
\* returns no volume.
C11_VolumeIsParsedOutputOrFatal ==
  last.op = "CreateVolume"
  => LET script == IF suites[last.driver].kind = "ext" THEN scriptName
                   ELSE bashScriptName
         out == Scripts[script].vol
         parses == last.exec.ok /\ out.kind = "json"
     IN /\ last.result.outcome = "returned"
             => (parses /\ last.result.volumeAttrib = out.kv)
        /\ ~parses => last.result.outcome \in {"panic", "failf"}
        /\ last.result.outcome \in {"panic", "failf"}
             => last.result.volumeAttrib = EmptyKV

C11_Witness ==
  /\ last.op = "CreateVolume"
  /\ last.exec.ok
  /\ last.result.outcome = "returned"
  /\ last.result.volumeAttrib = [k \in {"server"} |-> "10.0.0.1"]

(***************************************************************************)
(* execCommand called from several goroutines at once.  Every kubectl      *)
(* command and every script run is a process of its own, so these are the  *)
(* steps that interleave.  The kubeconfig namespace and the package        *)
(* variable currentNameSpace are shared by all of them.                    *)
(***************************************************************************)
MaxGoroutines == 2
Goroutines == 1..MaxGoroutines

\* the test namespace (config.Framework.Namespace.Name) of goroutine g
Requested(g) == IF g % 2 = 1 THEN "e2e-1" ELSE "e2e-2"

IdleCall ==
  [pc |-> "idle", kind |-> "", saved |-> "", switched |-> FALSE, ran |-> FALSE,
   ranUnder |-> "", ok |-> FALSE, err |-> FALSE, overlapped |-> FALSE]
InProgress(c) == c.pc \notin {"idle", "done"}

\* goroutine g takes a step that leaves its invocation as c; invocations in
\* progress at the same time are marked as overlapping
CallStep(g, c) ==
  calls' = [h \in Goroutines |->
              IF h = g
              THEN [c EXCEPT !.overlapped =
                      @ \/ \E o \in Goroutines \ {g} : InProgress(calls[o])]
              ELSE IF InProgress(calls[h]) THEN [calls[h] EXCEPT !.overlapped = TRUE]
              ELSE calls[h]]

\* CreateVolume up to its call of execCommand: driver-call.go stores the test
\* namespace in the package variable, bashDriver passes it as an argument
ExecCommandBegins(g, kind) ==
  /\ calls[g].pc = "idle"
  /\ currentNameSpace' = IF kind = "ext" THEN Requested(g) ELSE currentNameSpace
  /\ CallStep(g, [calls[g] EXCEPT !.kind = kind,
                                  !.pc = IF kind = "ext" THEN "set" ELSE "get"])
  /\ UNCHANGED <<phase, kubeNamespace, externalRunCustomTestDriver,
                 extRunCustomTestDriver, scriptName, currentDriver, validTestDriver,
                 preprovisionedVolumeTestDriver, preprovisionedPVTestDriver,
                 bashGlobals, suites, last, test>>

\* externalBash execCommand: currentNameSpace, err := getCurrentNameSpace()
ExecGetCurrentNameSpace(g, kubectlOk) ==
  /\ calls[g].pc = "get"
  /\ CallStep(g, IF kubectlOk
                 THEN [calls[g] EXCEPT !.saved = kubeNamespace, !.pc = "set"]
                 ELSE [calls[g] EXCEPT !.err = TRUE, !.pc = "done"])
  /\ UNCHANGED <<phase, kubeNamespace, externalRunCustomTestDriver, extGlobals,
                 bashGlobals, suites, last, test>>

\* the first setCurrentNameSpace: driver-call.go passes the package variable
\* and goes on whatever the answer; externalBash returns the error
ExecSetCurrentNameSpace(g, kubectlOk) ==
  /\ calls[g].pc = "set"
  /\ LET namespaceToUse == IF calls[g].kind = "ext" THEN currentNameSpace
                           ELSE Requested(g)
     IN kubeNamespace' = setCurrentNameSpace(kubeNamespace, namespaceToUse, kubectlOk)
  /\ CallStep(g, IF kubectlOk \/ calls[g].kind = "ext"
                 THEN [calls[g] EXCEPT !.switched = kubectlOk, !.pc = "run"]
                 ELSE [calls[g] EXCEPT !.err = TRUE, !.pc = "done"])
  /\ UNCHANGED <<phase, externalRunCustomTestDriver, extGlobals, bashGlobals,
                 suites, last, test>>

\* cmd.Run(): the script executes under the namespace the kubeconfig has now
ExecRun(g, runOk) ==
  /\ calls[g].pc = "run"
  /\ CallStep(g, [calls[g] EXCEPT !.ran = TRUE, !.ranUnder = kubeNamespace,
                                  !.ok = runOk, !.err = ~runOk,
                                  !.pc = IF calls[g].kind = "ext" /\ runOk
                                         THEN "done" ELSE "restore"])
  /\ UNCHANGED <<phase, kubeNamespace, externalRunCustomTestDriver, extGlobals,
                 bashGlobals, suites, last, test>>

\* the second setCurrentNameSpace: "default" after a failed script in
\* driver-call.go, the namespace read at the start in externalBash
ExecRestore(g, kubectlOk) ==
  /\ calls[g].pc = "restore"
  /\ kubeNamespace' =
       setCurrentNameSpace(kubeNamespace,
                           IF calls[g].kind = "ext" THEN "default" ELSE calls[g].saved,
                           kubectlOk)
  /\ CallStep(g, [calls[g] EXCEPT !.pc = "done",
                                  !.err = @ \/ (calls[g].kind = "bash" /\ ~kubectlOk)])
  /\ UNCHANGED <<phase, externalRunCustomTestDriver, extGlobals, bashGlobals,
                 suites, last, test>>

ConcInit ==
  /\ phase = "run"
  /\ kubeNamespace \in UserNamespaces
  /\ externalRunCustomTestDriver = TRUE
  /\ extRunCustomTestDriver = FALSE
  /\ bashRunCustomTestDriver = FALSE
  /\ scriptName = "full.sh"
  /\ bashScriptName = "full.sh"
  /\ currentNameSpace = "default"
  /\ currentDriver = NoDriver
  /\ validTestDriver = TRUE
  /\ preprovisionedVolumeTestDriver = TRUE
  /\ preprovisionedPVTestDriver = TRUE
  /\ suites = << >>
  /\ last = [op |-> "concurrent", original |-> kubeNamespace]
  /\ calls = [g \in Goroutines |-> IdleCall]
  /\ test = NoTest

ConcNext ==
  \/ \E g \in Goroutines, kind \in ShellKinds : ExecCommandBegins(g, kind)
  \/ \E g \in Goroutines, kubectlOk \in BOOLEAN : ExecGetCurrentNameSpace(g, kubectlOk)
  \/ \E g \in Goroutines, kubectlOk \in BOOLEAN : ExecSetCurrentNameSpace(g, kubectlOk)
  \/ \E g \in Goroutines, runOk \in BOOLEAN : ExecRun(g, runOk)
  \/ \E g \in Goroutines, kubectlOk \in BOOLEAN : ExecRestore(g, kubectlOk)

ConcSpec == ConcInit /\ [][ConcNext]_vars

LegacyDefFlags == DOMAIN LegacyDefFiles

LoadNext ==
  \/ \E filename \in DriverDefFlags : YamlSet(filename)
  \/ \E filename \in LegacyDefFlags : LegacySet(filename)
  \/ \E filename \in ScriptFlags : ExtSet(filename)
  \/ \E filename \in ScriptFlags : BashSet(filename)
  \/ \E customTestDriver \in TestDriverFlags : Test(customTestDriver)
  \/ \E i \in DOMAIN suites, pattern \in TestPatterns : SkipUnsupportedTest(i, pattern)
  \/ TestCaseEnds

LoadSpec == Init /\ [][LoadNext]_vars

\* the document the last Set call read
SetDocument ==
  CASE last.kind = "yaml" -> DefFiles[last.filename].data
    [] last.kind = "legacy" -> LegacyDefFiles[last.filename].data
    [] OTHER -> Scripts[last.filename].info

NameIn(data) ==
  IF data.kind = "doc" /\ DocHas(data.doc, "Name") THEN data.doc.Name ELSE ""
BadDefinition(call) ==
  \/ call.filename = ""
  \/ /\ call.kind = "yaml"
     /\ \/ ~DefFiles[call.filename].readable
        \/ DefFiles[call.filename].data.kind # "doc"
        \/ NameIn(DefFiles[call.filename].data) = ""
  \/ /\ call.kind = "legacy"
     /\ \/ ~LegacyDefFiles[call.filename].readable
        \/ LegacyDefFiles[call.filename].data.kind # "doc"
        \/ NameIn(LegacyDefFiles[call.filename].data) = ""
  \/ /\ call.kind \in {"ext", "bash"}
     /\ \/ ~checkBashFuncExists(call.filename, "getDriverInfo")
        \/ (call.exec.called /\ ~call.exec.ok)
        \/ Scripts[call.filename].info.kind # "doc"
        \/ NameIn(Scripts[call.filename].info) = ""

\* C14: a Set call of any of the definition flags fails and defines no suite
\* when the file name is empty, the definition cannot be read or decoded, or
\* DriverInfo.Name is empty; the suite a Set call defines has a non-empty name.
C14_SetFailsOnBadDefinition ==
  [][last'.op = "Set" /\ phase = "flags"
       => /\ BadDefinition(last') => (last'.outcome # "ok" /\ suites' = suites)
          /\ suites' # suites =>
               /\ last'.outcome = "ok"
               /\ Len(suites') = Len(suites) + 1
               /\ SubSeq(suites', 1, Len(suites)) = suites
               /\ suites'[Len(suites')].def.DriverInfo.Name # ""]_vars

\* the registry names whose suites are defined
CodeDriversDefined ==
  {n \in DOMAIN CSITestDrivers : \E i \in DOMAIN suites : suites[i] = CodeDriver(n)}
KindsDefined == {suites[i].kind : i \in DOMAIN suites}

MaxPatterns == 3
TunedPatterns == {p \in TestPatterns : p.SnapshotType = ""}
PatternLists == UNION {[1..n -> TunedPatterns] : n \in 0..MaxPatterns}

RECURSIVE csiTunePattern_KeepsPreprovisioned(_)
csiTunePattern_KeepsPreprovisioned(patterns) ==
  IF patterns = << >> THEN << >>
  ELSE LET pattern == patterns[Len(patterns)]
           tunedPatterns ==
             csiTunePattern_KeepsPreprovisioned(SubSeq(patterns, 1, Len(patterns) - 1))
       IN IF pattern.VolType = InlineVolume THEN tunedPatterns
          ELSE Append(tunedPatterns, pattern)

\* the loop of csiTunePattern: tunedPatterns after the first n patterns is
\* tunedPatterns after the first n-1, with pattern n appended unless it is
\* an inline-volume or pre-provisioned-PV pattern
RECURSIVE csiTunePattern(_)
csiTunePattern(patterns) ==
  IF patterns = << >> THEN << >>
  ELSE LET pattern == patterns[Len(patterns)]
           tunedPatterns == csiTunePattern(SubSeq(patterns, 1, Len(patterns) - 1))
       IN IF pattern.VolType = InlineVolume \/ pattern.VolType = PreprovisionedPV
          THEN tunedPatterns
          ELSE Append(tunedPatterns, pattern)

TuneInit ==
  /\ phase = "run"
  /\ kubeNamespace = "default"
  /\ externalRunCustomTestDriver = TRUE
  /\ extRunCustomTestDriver = TRUE
  /\ bashRunCustomTestDriver = TRUE
  /\ scriptName = ""
  /\ bashScriptName = ""
  /\ currentNameSpace = "default"
  /\ currentDriver = NoDriver
  /\ validTestDriver = FALSE
  /\ preprovisionedVolumeTestDriver = FALSE
  /\ preprovisionedPVTestDriver = FALSE
  /\ suites = << >>
  /\ last = NoOp
  /\ calls = NoCalls
  /\ \E patterns \in PatternLists :
       test = [pc |-> "patterns", patterns |-> patterns, tunedPatterns |-> << >>]

CsiTunePattern ==
  /\ test.pc = "patterns"
  /\ test' = [test EXCEPT !.pc = "tuned",
                          !.tunedPatterns = csiTunePattern(test.patterns)]
  /\ UNCHANGED <<phase, kubeNamespace, externalRunCustomTestDriver, extGlobals,
                 bashGlobals, suites, last, calls>>

TuneNext == CsiTunePattern

TuneSpec == TuneInit /\ [][TuneNext]_vars

Kept(pattern) ==
  pattern.VolType # InlineVolume /\ pattern.VolType # PreprovisionedPV

\* C18: csiTunePattern returns exactly the input patterns whose VolType is
\* neither InlineVolume nor PreprovisionedPV, in their original order and
\* with their original multiplicity.
C18_TunedIsInputWithoutInlineAndPreprovisioned ==
  test.pc = "tuned" => test.tunedPatterns = SelectSeq(test.patterns, Kept)

C18_Witness ==
  /\ test.pc = "tuned"
  /\ Len(test.patterns) = 3 /\ Len(test.tunedPatterns) = 2
  /\ test.patterns[2].VolType = PreprovisionedPV
  /\ test.tunedPatterns[1] = test.patterns[1]
  /\ test.tunedPatterns[2] = test.patterns[3]
  /\ test.tunedPatterns[1] # test.tunedPatterns[2]

(***************************************************************************)
(* One test case of the provisioning suite (provisioningTestSuite          *)
(* .defineTests): the three It bodies, each calling init() and then        *)
(* deferring driverCleanup.                                                *)
(***************************************************************************)
CapBlock == "block"
CapPersistence == "persistence"
\* DriverInfo.Capabilities: map[Capability]bool
CapabilityMaps == UNION {[D -> BOOLEAN] : D \in SUBSET {CapBlock, CapPersistence}}

\* m[k] on a Go map[Capability]bool: the zero value false for a missing key
MapIndex_MissingIsTrue(m, k) == IF k \in DOMAIN m THEN m[k] ELSE TRUE
MapIndex(m, k) == IF k \in DOMAIN m THEN m[k] ELSE FALSE

Its == {"defaults", "mount options", "block"}
\* what dDriver.GetDynamicProvisionStorageClass(config, "") does inside init:
\* returns a class, returns nil, or fails an Expect
InitClassResults == {"sc", "nil", "fatal"}
\* where TestDynamicProvisioning stops: creating the class, creating the
\* claim, a later check, or not at all
BodyStops == {"class", "claim", "check", "none"}

\* the variables of a test case at the start of an It body
NewCase(driver, pattern, it) ==
  [pc |-> "It", it |-> it, driver |-> driver, pattern |-> pattern,
   driverCreated |-> FALSE,   \* driver.CreateDriver(f) returned
   deployed |-> FALSE,        \* the driver's objects are in the cluster
   cleanupDeferred |-> FALSE, \* defer driverCleanup() was reached
   cleanupCalled |-> FALSE,   \* driverCleanup() ran
   scCreated |-> FALSE, claimCreated |-> FALSE,
   outcome |-> "running"]

CaseEnds(c, outcome) == [c EXCEPT !.pc = "ended", !.outcome = outcome]

CaseInit ==
  /\ phase = "run"
  /\ kubeNamespace = "default"
  /\ externalRunCustomTestDriver = TRUE
  /\ extRunCustomTestDriver = TRUE
  /\ bashRunCustomTestDriver = TRUE
  /\ scriptName = ""
  /\ bashScriptName = ""
  /\ currentNameSpace = "default"
  /\ currentDriver = NoDriver
  /\ validTestDriver = FALSE
  /\ preprovisionedVolumeTestDriver = FALSE
  /\ preprovisionedPVTestDriver = FALSE
  /\ suites = << >>
  /\ last = NoOp
  /\ calls = NoCalls
  /\ \E dynamic \in BOOLEAN, caps \in CapabilityMaps, mountOption \in BOOLEAN,
        volType \in {DynamicPV, PreprovisionedPV} :
       test = [pc |-> "defined",
               driver |-> [DynamicPVTestDriver |-> dynamic, Capabilities |-> caps,
                           SupportedMountOption |-> mountOption],
               pattern |-> [VolType |-> volType, FsType |-> "", SnapshotType |-> ""]]

CaseUnchanged ==
  UNCHANGED <<phase, kubeNamespace, externalRunCustomTestDriver, extGlobals,
              bashGlobals, suites, last, calls>>

\* the first statements of an It body, up to the call of init()
ItBegins(it) ==
  /\ test.pc \in {"defined", "ended"}
  /\ LET c == NewCase(test.driver, test.pattern, it) IN
       test' = IF it = "mount options" /\ ~test.driver.SupportedMountOption
               THEN CaseEnds(c, "skipped")
               ELSE IF it = "block" /\ ~MapIndex(test.driver.Capabilities, CapBlock)
               THEN CaseEnds(c, "skipped")
               ELSE [c EXCEPT !.pc = "init"]
  /\ CaseUnchanged

\* init(): "Check preconditions."
InitPreconditions ==
  /\ test.pc = "init"
  /\ test' = IF test.pattern.VolType # DynamicPV THEN CaseEnds(test, "skipped")
             ELSE IF ~test.driver.DynamicPVTestDriver THEN CaseEnds(test, "skipped")
             ELSE [test EXCEPT !.pc = "CreateDriver"]
  /\ CaseUnchanged

\* init(): config, driverCleanup = driver.CreateDriver(f); a driver that
\* cannot deploy ends the test case from inside CreateDriver
InitCreateDriver(ok, partly) ==
  /\ test.pc = "CreateDriver"
  /\ test' = IF ok
             THEN [test EXCEPT !.pc = "StorageClass", !.driverCreated = TRUE,
                               !.deployed = TRUE]
             ELSE [CaseEnds(test, "failed") EXCEPT !.deployed = partly]
  /\ CaseUnchanged

\* init(): GetClaimSize, GetDynamicProvisionStorageClass, the nil check and
\* the construction of the claim and the StorageClassTest; back in the It
\* body, defer driverCleanup()
InitStorageClass(result) ==
  /\ test.pc = "StorageClass"
  /\ test' = CASE result = "sc" -> [test EXCEPT !.pc = "body", !.cleanupDeferred = TRUE]
               [] result = "nil" -> CaseEnds(test, "skipped")
               [] OTHER -> CaseEnds(test, "failed")
  /\ CaseUnchanged

\* testCase.TestDynamicProvisioning() and, when the It body returns or
\* panics, the deferred driverCleanup()
TestDynamicProvisioning(stop) ==
  /\ test.pc = "body"
  /\ test' = [CaseEnds(test, IF stop = "none" THEN "passed" ELSE "failed")
                EXCEPT !.scCreated = (stop # "class"),
                       !.claimCreated = (stop \notin {"class", "claim"}),
                       !.cleanupCalled = test.cleanupDeferred,
                       !.deployed = ~test.cleanupDeferred]
  /\ CaseUnchanged

CaseNext ==
  \/ \E it \in Its : ItBegins(it)
  \/ InitPreconditions
  \/ \E ok \in BOOLEAN, partly \in BOOLEAN : InitCreateDriver(ok, partly)
  \/ \E result \in InitClassResults : InitStorageClass(result)
  \/ \E stop \in BodyStops : TestDynamicProvisioning(stop)

CaseSpec == CaseInit /\ [][CaseNext]_vars

InCase == test.pc \notin {"none", "defined", "patterns", "tuned"}

\* C19: the block-volume test case runs only if Capabilities[CapBlock] is
\* true; when the entry is false or missing the test case is skipped before
\* a driver is deployed and before a StorageClass or claim is created.
C19_BlockCaseOnlyWithCapBlock ==
  (InCase /\ test.it = "block")
  => LET capable == /\ CapBlock \in DOMAIN test.driver.Capabilities
                    /\ test.driver.Capabilities[CapBlock]
     IN /\ ~capable =>
             /\ test.pc = "ended" /\ test.outcome = "skipped"
             /\ ~test.driverCreated /\ ~test.deployed
             /\ ~test.scCreated /\ ~test.claimCreated
        /\ test.pc \in {"init", "CreateDriver", "StorageClass", "body"} => capable
        /\ (test.driverCreated \/ test.scCreated \/ test.claimCreated) => capable

C19_Witness ==
  /\ InCase /\ test.it = "block" /\ test.pc = "ended" /\ test.outcome = "skipped"
  /\ test.driver.DynamicPVTestDriver /\ test.pattern.VolType = DynamicPV
  /\ CapBlock \notin DOMAIN test.driver.Capabilities
  /\ ~test.deployed /\ ~test.scCreated

\* C20: once CreateDriver has returned inside init, driverCleanup is invoked
\* before the test case ends, on every path.
C20_CleanupAfterCreateDriver ==
  (InCase /\ test.pc = "ended" /\ test.driverCreated) => test.cleanupCalled

(***************************************************************************)
(* A driver descriptor through the test cases of a run: the remaining      *)
(* operations of the definition adapters, and the per-test setup and       *)
(* teardown of the drivers written in Go (manifestDriver of                *)
(* test/csi_volumes.go, hostpathCSIDriver of driver/driver.go).            *)
(***************************************************************************)
\* how many test cases a run goes through
MaxTests == 2
\* the ready schedulable nodes CreateDriver picks one of
Nodes == {"node-1", "node-2"}

\* GetSnapshotClass of the definition adapters
GetSnapshotClassCall(i, ns) ==
  /\ Ready
  /\ suites[i].kind \in DefinitionKinds
  /\ last' = [op |-> "GetSnapshotClass", driver |-> i,
              result |-> IF ~suites[i].def.SnapshotClass.FromName
                         THEN [outcome |-> "skip"]
                         ELSE [outcome |-> "returned", ns |-> ns]]
  /\ UNCHANGED <<calls, test>>
  /\ UNCHANGED <<phase, kubeNamespace, externalRunCustomTestDriver, extGlobals,
                 bashGlobals, suites>>

GetClaimSizeCall(i) ==
  /\ Ready
  /\ suites[i].kind \in DefinitionKinds
  /\ last' = [op |-> "GetClaimSize", driver |-> i, result |-> suites[i].def.ClaimSize]
  /\ UNCHANGED <<calls, test>>
  /\ UNCHANGED <<phase, kubeNamespace, externalRunCustomTestDriver, extGlobals,
                 bashGlobals, suites>>

\* PrepareTest of the definition adapters: a fresh PerTestConfig and a
\* cleanup function that does nothing
PrepareTestCall(i) ==
  /\ Ready
  /\ suites[i].kind \in DefinitionKinds
  /\ last' = [op |-> "PrepareTest", driver |-> i,
              result |-> [Prefix |-> "external",
                          ClientNodeName |-> suites[i].def.ClientNodeName]]
  /\ UNCHANGED <<calls, test>>
  /\ UNCHANGED <<phase, kubeNamespace, externalRunCustomTestDriver, extGlobals,
                 bashGlobals, suites>>

\* a driver written in Go, as constructed; cleanup is a func(), nil until
\* CreateDriver assigns it
CodeDescriptor(kind) ==
  [kind |-> kind,
   driverInfo |-> [Name |-> "csi-hostpath", Config |-> [Prefix |-> "csi",
                                                        ClientNodeName |-> ""]],
   patchOptions |-> [OldDriverName |-> "csi-hostpath", NodeName |-> ""],
   claimSize |-> IF kind = "manifestDriver" THEN "1Mi" ELSE "5Gi",
   cleanup |-> "nil"]
CodeDriverKinds == {"manifestDriver", "hostpathCSIDriver"}

\* the beforeEach closure of the manifestDriver in csiTestDrivers
beforeEach_OnlyPatchOptions(m, node) == [m EXCEPT !.patchOptions.NodeName = node]
beforeEach(m, node) ==
  [m EXCEPT !.driverInfo.Config.ClientNodeName = node, !.patchOptions.NodeName = node]

CodeInit ==
  /\ phase = "run"
  /\ kubeNamespace = "default"
  /\ externalRunCustomTestDriver = TRUE
  /\ extRunCustomTestDriver = TRUE
  /\ bashRunCustomTestDriver = TRUE
  /\ scriptName = ""
  /\ bashScriptName = ""
  /\ currentNameSpace = "default"
  /\ currentDriver = NoDriver
  /\ validTestDriver = FALSE
  /\ preprovisionedVolumeTestDriver = FALSE
  /\ preprovisionedPVTestDriver = FALSE
  /\ suites = << >>
  /\ last = NoOp
  /\ calls = NoCalls
  /\ \E kind \in CodeDriverKinds :
       test = [pc |-> "BeforeEach", m |-> CodeDescriptor(kind), tests |-> 0,
               selected |-> "", config |-> [ClientNodeName |-> ""],
               deployed |-> FALSE, failed |-> FALSE, called |-> "none",
               returned |-> "none", invoked |-> FALSE]

SetupInit == DriverInit \/ CodeInit

CodeUnchanged ==
  UNCHANGED <<phase, kubeNamespace, externalRunCustomTestDriver, extGlobals,
              bashGlobals, suites, last, calls>>

\* how far a CreateDriver call gets: GetReadySchedulableNodesOrDie fails the
\* test case ("nodes"), CreateFromManifests reports an error ("deploy"), or
\* the driver is deployed ("ok")
CreateSteps == {"nodes", "deploy", "ok"}
\* what CreateFromManifests hands back as its first result: a func() or nil
CleanupFuncs == {"nil", "set"}

\* `m.cleanup = cleanup`, the statement before `if err != nil`
StoreCleanup_UnlessError(m, cleanup, err) ==
  IF err THEN m ELSE [m EXCEPT !.cleanup = cleanup]
StoreCleanup(m, cleanup, err) == [m EXCEPT !.cleanup = cleanup]

\* BeforeEach: driver.CreateDriver().  manifestDriver runs its beforeEach
\* closure first; hostpathCSIDriver writes the node into the config it was
\* handed.  Both keep what CreateFromManifests returned in the cleanup field
\* and fail the test case on an error.  A test case that failed in its
\* BeforeEach still has its AfterEach run.
CreateDriver(node, step, cleanup) ==
  /\ test.pc = "BeforeEach"
  /\ test.tests < MaxTests
  /\ (step = "ok" => cleanup = "set")
  /\ (step = "nodes" => cleanup = "nil")
  /\ LET chosen == step # "nodes"
         m == IF chosen /\ test.m.kind = "manifestDriver"
              THEN beforeEach(test.m, node) ELSE test.m
     IN test' = [test EXCEPT !.pc = IF step = "ok" THEN "It" ELSE "AfterEach",
                             !.m = IF chosen
                                   THEN StoreCleanup(m, cleanup, step = "deploy")
                                   ELSE m,
                             !.config = IF chosen /\ test.m.kind = "hostpathCSIDriver"
                                        THEN [ClientNodeName |-> node] ELSE @,
                             !.selected = IF chosen THEN node ELSE @,
                             !.tests = @ + 1,
                             !.deployed = IF chosen THEN TRUE ELSE @,
                             !.failed = (step # "ok"),
                             !.called = "CreateDriver",
                             !.returned = IF chosen THEN cleanup ELSE @,
                             !.invoked = FALSE]
  /\ CodeUnchanged

\* the test case calls SkipUnsupportedTest, GetClaimSize or
\* GetDynamicProvisionStorageClass of the driver; a failed Expect in the last
\* fails the test case
CodeDriverCall(op, ok) ==
  /\ test.pc = "It"
  /\ (op # "GetDynamicProvisionStorageClass" => ok)
  /\ test' = [test EXCEPT !.pc = "AfterEach", !.failed = ~ok, !.called = op]
  /\ CodeUnchanged

\* AfterEach: driver.CleanupDriver()
CleanupDriver ==
  /\ test.pc = "AfterEach"
  /\ test' = [test EXCEPT !.pc = "BeforeEach",
                          !.deployed = IF test.m.cleanup # "nil" THEN FALSE ELSE @,
                          !.invoked = (test.m.cleanup # "nil"),
                          !.called = "CleanupDriver"]
  /\ CodeUnchanged

CodeDriverOps == {"SkipUnsupportedTest", "GetClaimSize", "GetDynamicProvisionStorageClass"}

SetupNext ==
  \/ \E i \in DOMAIN suites, pattern \in TestPatterns : SkipUnsupportedTest(i, pattern)
  \/ \E i \in DOMAIN suites, fsType \in FsTypes, ns \in TestNamespaces,
        load \in CommonLoads, patchErr \in BOOLEAN :
       GetDynamicProvisionStorageClassCall(i, fsType, ns, load, patchErr)
  \/ \E i \in DOMAIN suites, ns \in TestNamespaces : GetSnapshotClassCall(i, ns)
  \/ \E i \in DOMAIN suites : GetClaimSizeCall(i)
  \/ \E i \in DOMAIN suites : PrepareTestCall(i)
  \/ \E i \in DOMAIN suites, ns \in TestNamespaces : ExtCreateVolume(i, ns)
  \/ \E i \in DOMAIN suites, ns \in TestNamespaces : BashCreateVolume(i, ns)
  \/ TestCaseEnds
  \/ \E node \in Nodes, step \in CreateSteps, cleanup \in CleanupFuncs :
       CreateDriver(node, step, cleanup)
  \/ \E op \in CodeDriverOps, ok \in BOOLEAN : CodeDriverCall(op, ok)
  \/ CleanupDriver

SetupSpec == SetupInit /\ [][SetupNext]_vars

IsCode == test.pc \in {"BeforeEach", "It", "AfterEach"}
\* the fields of the descriptors with the selected node name left out
ExceptNodeName(m) ==
  [m EXCEPT !.driverInfo.Config.ClientNodeName = "", !.patchOptions.NodeName = ""]
ExceptNodeNameAndCleanup(m) == [ExceptNodeName(m) EXCEPT !.cleanup = "nil"]
DefinitionsExceptNodeName ==
  [i \in DOMAIN suites |-> [suites[i] EXCEPT !.def.ClientNodeName = ""]]

\* C17, as the specification words it: no operation changes a field of a
\* constructed descriptor other than the selected node name, and the node
\* name is empty again when the next test's setup begins.
C17_OnlyNodeNameChangesAndIsCleared ==
  [][/\ DefinitionsExceptNodeName' = DefinitionsExceptNodeName
     /\ (IsCode /\ IsCode')
          => /\ ExceptNodeName(test'.m) = ExceptNodeName(test.m)
             /\ (test.pc = "BeforeEach" /\ test'.pc # "BeforeEach")
                  => /\ test.m.driverInfo.Config.ClientNodeName = ""
                     /\ test.m.patchOptions.NodeName = ""]_vars

\* C17, as the code has it: no operation changes a descriptor loaded from a
\* definition at all.  Of a driver written in Go, CreateDriver alone writes
\* fields: the cleanup function and, in manifestDriver, the selected node
\* name (ClientNodeName and patchOptions.NodeName); no other field changes,
\* and CleanupDriver clears nothing, so that the next test's setup begins
\* with the node name and the cleanup function of the previous test.
C17_OnlyCreateDriverWritesNodeAndCleanup ==
  [][/\ suites' = suites
     /\ (IsCode /\ IsCode')
          => /\ ExceptNodeNameAndCleanup(test'.m) = ExceptNodeNameAndCleanup(test.m)
             /\ test'.m # test.m => (test.pc = "BeforeEach" /\ test'.called = "CreateDriver")
             /\ (test.pc = "BeforeEach" /\ test.returned # "none")
                  => /\ test.m.cleanup = test.returned
                     /\ test.m.kind = "manifestDriver"
                          => /\ test.m.driverInfo.Config.ClientNodeName = test.selected
                             /\ test.m.patchOptions.NodeName = test.selected
                             /\ test.selected \in Nodes]_vars

C17_Witness ==
  /\ IsCode /\ test.pc = "It" /\ test.tests = 2
  /\ test.m.kind = "manifestDriver"
  /\ test.m.driverInfo.Config.ClientNodeName = "node-2"
  /\ test.m.cleanup = "set"

(***************************************************************************)
(* DeleteVolume of the test volumes: what each implementation does with    *)
(* the answers of the cluster or of the cinder command.                    *)
(***************************************************************************)
\* how many times the cinder loop comes round before its timeout
MaxAttempts == 3
ApiResults == {"ok", "notfound", "err"}
VolumeKinds == {"testVolume", "glusterVolume", "cinderVolume", "hostPathSymlinkVolume"}
\* the answers the environment gives to the calls of one DeleteVolume, in order
ApiAnswers == [1..MaxAttempts -> ApiResults]

\* the state of the program outside the flags and the registered drivers
NoProgram ==
  /\ phase = "run"
  /\ kubeNamespace = "default"
  /\ externalRunCustomTestDriver = TRUE
  /\ extRunCustomTestDriver = TRUE
  /\ bashRunCustomTestDriver = TRUE
  /\ scriptName = ""
  /\ bashScriptName = ""
  /\ currentNameSpace = "default"
  /\ currentDriver = NoDriver
  /\ validTestDriver = FALSE
  /\ preprovisionedVolumeTestDriver = FALSE
  /\ preprovisionedPVTestDriver = FALSE
  /\ suites = << >>
  /\ last = NoOp
  /\ calls = NoCalls

\* [attempts, logged, failed]: the resources a deletion was attempted on, in
\* order; how many failures were logged; whether the test was failed
Teardown(attempts, logged, failed) ==
  [attempts |-> attempts, logged |-> logged, failed |-> failed]

\* testVolume.DeleteVolume of the shell-script adapters: an empty body
TestVolumeDelete == Teardown(<< >>, 0, FALSE)

\* glusterVolume.DeleteVolume: the endpoints, then the server pod
GlusterDelete(answers) ==
  IF answers[1] = "err" THEN Teardown(<<"endpoints">>, 0, TRUE)
  ELSE LET logged == IF answers[1] = "notfound" THEN 1 ELSE 0
       IN IF answers[2] # "ok" THEN Teardown(<<"endpoints", "pod">>, logged, TRUE)
          ELSE Teardown(<<"endpoints", "pod">>, logged, FALSE)

CinderDelete_Once(answers, i) ==
  Teardown(<<"volume">>, IF answers[i] = "ok" THEN 0 ELSE 2, FALSE)

\* cinderVolume.DeleteVolume: "cinder delete" every five seconds until it
\* succeeds or the timeout is over; round i of the loop onwards
RECURSIVE CinderDelete(_, _)
CinderDelete(answers, i) ==
  IF i > MaxAttempts THEN Teardown(<< >>, 1, FALSE)
  ELSE IF answers[i] = "ok" THEN Teardown(<<"volume">>, 0, FALSE)
  ELSE LET rest == CinderDelete(answers, i + 1)
       IN Teardown(<<"volume">> \o rest.attempts, 1 + rest.logged, FALSE)

\* hostPathSymlinkVolume.DeleteVolume: create the teardown pod, wait for it,
\* delete it; each step is an Expect
HostPathSymlinkDelete(answers) ==
  IF answers[1] # "ok" THEN Teardown(<<"paths">>, 0, TRUE)
  ELSE IF answers[2] # "ok" THEN Teardown(<<"paths">>, 0, TRUE)
  ELSE Teardown(<<"paths", "pod">>, 0, answers[3] # "ok")

TeardownInit ==
  /\ NoProgram
  /\ \E kind \in VolumeKinds, answers \in ApiAnswers :
       test = [pc |-> "volume", kind |-> kind, answers |-> answers,
               result |-> Teardown(<< >>, 0, FALSE)]

DeleteVolume ==
  /\ test.pc = "volume"
  /\ test' = [test EXCEPT
                !.pc = "deleted",
                !.result =
                  CASE test.kind = "testVolume" -> TestVolumeDelete
                    [] test.kind = "glusterVolume" -> GlusterDelete(test.answers)
                    [] test.kind = "cinderVolume" -> CinderDelete(test.answers, 1)
                    [] OTHER -> HostPathSymlinkDelete(test.answers)]
  /\ UNCHANGED <<phase, kubeNamespace, externalRunCustomTestDriver, extGlobals,
                 bashGlobals, suites, last, calls>>

TeardownNext == DeleteVolume

TeardownSpec == TeardownInit /\ [][TeardownNext]_vars

\* how often a resource was attempted
Attempts(result, resource) ==
  Cardinality({i \in DOMAIN result.attempts : result.attempts[i] = resource})
\* the first round of the cinder loop that succeeds, MaxAttempts if none does
CinderRounds(answers) ==
  IF \E i \in 1..MaxAttempts : answers[i] = "ok"
  THEN CHOOSE i \in 1..MaxAttempts :
         answers[i] = "ok" /\ \A j \in 1..(i - 1) : answers[j] # "ok"
  ELSE MaxAttempts

\* C21, as the specification words it: every DeleteVolume makes at most one
\* deletion attempt per resource and never fails the test.
C21_OneAttemptNeverFails ==
  test.pc = "deleted"
  => /\ \A resource \in {"endpoints", "pod", "volume", "paths"} :
          Attempts(test.result, resource) <= 1
     /\ ~test.result.failed

\* C21, as the code has it: the shell-script testVolume attempts nothing;
\* glusterVolume and hostPathSymlinkVolume attempt each resource at most once,
\* stop at the first failure and fail the test on it, save that endpoints
\* already gone are logged and passed over; cinderVolume never fails the test
\* but repeats the deletion after every failure, until it succeeds or the
\* timeout is over, logging each failure and the giving up.
C21_TeardownByImplementation ==
  test.pc = "deleted"
  => LET r == test.result
         a == test.answers
     IN CASE test.kind = "testVolume" -> r.attempts = << >> /\ ~r.failed
          [] test.kind = "glusterVolume" ->
               /\ Attempts(r, "endpoints") = 1 /\ Attempts(r, "pod") <= 1
               /\ r.failed <=> (a[1] = "err" \/ a[2] # "ok")
               /\ a[1] = "err" => Attempts(r, "pod") = 0
               /\ (a[1] = "notfound") <=> (r.logged = 1)
          [] test.kind = "cinderVolume" ->
               /\ ~r.failed
               /\ Attempts(r, "volume") = CinderRounds(a)
               /\ r.logged = IF \E i \in 1..MaxAttempts : a[i] = "ok"
                             THEN CinderRounds(a) - 1 ELSE MaxAttempts + 1
          [] OTHER ->
               /\ Attempts(r, "paths") = 1 /\ Attempts(r, "pod") <= 1
               /\ r.failed <=> (\E i \in 1..3 : a[i] # "ok")
               /\ Attempts(r, "pod") = 1 <=> (a[1] = "ok" /\ a[2] = "ok")

C21_Witness ==
  /\ test.pc = "deleted" /\ test.kind = "cinderVolume"
  /\ test.answers[1] = "err" /\ test.answers[2] = "ok"
  /\ test.result.attempts = <<"volume", "volume">>
  /\ test.result.logged = 1 /\ ~test.result.failed

(***************************************************************************)
(* Pod-log streaming around a test case: the BeforeEach/AfterEach pair of  *)
(* test/csi_volumes.go ("Describe") and hostpathCSIDriver.PrepareTest of   *)
(* driver/hostpath_driver.go ("PrepareTest").                              *)
(***************************************************************************)
\* how many test cases in a row are followed
MaxCases == 3
Harnesses == {"Describe", "PrepareTest"}

StreamInit ==
  /\ NoProgram
  /\ \E harness \in Harnesses :
       test = [pc |-> "between", harness |-> harness, tests |-> 0,
               started |-> {}, cancelled |-> {}, node |-> "",
               deployed |-> FALSE, failed |-> FALSE]

StreamUnchanged ==
  UNCHANGED <<phase, kubeNamespace, externalRunCustomTestDriver, extGlobals,
              bashGlobals, suites, last, calls>>

\* BeforeEach of the Describe: context.WithCancel, podlogs.CopyAllLogs and
\* podlogs.WatchPods
DescribeBeforeEach ==
  /\ test.pc = "between" /\ test.harness = "Describe"
  /\ test.tests < MaxCases
  /\ test' = [test EXCEPT !.pc = "driver BeforeEach", !.tests = @ + 1,
                          !.started = @ \cup {test.tests + 1},
                          !.failed = FALSE]
  /\ StreamUnchanged

\* BeforeEach of the driver's Context: driver.CreateDriver(); a failure
\* skips the It body, the AfterEach blocks still run
DriverBeforeEach(node, ok) ==
  /\ test.pc = "driver BeforeEach"
  /\ test' = [test EXCEPT !.pc = IF ok THEN "It" ELSE "driver AfterEach",
                          !.node = node, !.deployed = TRUE, !.failed = ~ok]
  /\ StreamUnchanged

DescribeIt(passes) ==
  /\ test.pc = "It"
  /\ test' = [test EXCEPT !.pc = "driver AfterEach", !.failed = ~passes]
  /\ StreamUnchanged

\* AfterEach of the driver's Context: driver.CleanupDriver()
DriverAfterEach ==
  /\ test.pc = "driver AfterEach"
  /\ test' = [test EXCEPT !.pc = "AfterEach", !.deployed = FALSE]
  /\ StreamUnchanged

\* AfterEach of the Describe: cancel()
DescribeAfterEach ==
  /\ test.pc = "AfterEach"
  /\ test' = [test EXCEPT !.pc = "between", !.cancelled = @ \cup {test.tests}]
  /\ StreamUnchanged

\* hostpathCSIDriver.PrepareTest: StartPodLogs, then the deployment; on an
\* error framework.Failf ends the test case inside PrepareTest, before the
\* function that calls cleanup() and cancel() is returned
PrepareTest(node, ok, partly) ==
  /\ test.pc = "between" /\ test.harness = "PrepareTest"
  /\ test.tests < MaxCases
  /\ test' = [test EXCEPT !.pc = IF ok THEN "body" ELSE "between",
                          !.tests = @ + 1,
                          !.started = @ \cup {test.tests + 1},
                          !.node = node,
                          !.deployed = IF ok THEN TRUE ELSE partly,
                          !.failed = ~ok]
  /\ StreamUnchanged

\* the test case runs and, passing or failing, calls the function PrepareTest
\* returned: cleanup() and cancel()
PreparedTestEnds(passes) ==
  /\ test.pc = "body"
  /\ test' = [test EXCEPT !.pc = "between", !.failed = ~passes,
                          !.deployed = FALSE,
                          !.cancelled = @ \cup {test.tests}]
  /\ StreamUnchanged

StreamNext ==
  \/ DescribeBeforeEach
  \/ \E node \in Nodes, ok \in BOOLEAN : DriverBeforeEach(node, ok)
  \/ \E passes \in BOOLEAN : DescribeIt(passes)
  \/ DriverAfterEach
  \/ DescribeAfterEach
  \/ \E node \in Nodes, ok \in BOOLEAN, partly \in BOOLEAN : PrepareTest(node, ok, partly)
  \/ \E passes \in BOOLEAN : PreparedTestEnds(passes)

StreamSpec == StreamInit /\ [][StreamNext]_vars

\* C22: every streaming context started for a test case is cancelled when
\* the test case ends, also when deploying the driver failed after the
\* streaming had begun.
C22_StreamsCancelledAtEnd ==
  (test.pc = "between" /\ "started" \in DOMAIN test) => test.started \subseteq test.cancelled

(***************************************************************************)
(* The earlier certify.Test, which goes with the earlier --driverdef       *)
(* adapter: the code drivers are run when no definition was given and      *)
(* --testdriver names a registered driver, anything else is a failure.     *)
(***************************************************************************)
InsufficientArguments == "Insufficient arguments to run e2e tests"

LegacyTest(customTestDriver) ==
  /\ phase = "flags"
  /\ \E order \in {<<"hostpath", "nfs">>, <<"nfs", "hostpath">>} :
       LET called == /\ externalRunCustomTestDriver
                     /\ customTestDriver \in DOMAIN CSITestDrivers
           r == IF called THEN RunCustomTestDriver(customTestDriver, order)
                ELSE [failf |-> TRUE, diagnostic |-> InsufficientArguments,
                      drivers |-> << >>]
       IN /\ suites' = suites \o r.drivers
          /\ phase' = IF r.failf THEN "exited" ELSE "run"
          /\ last' = [op |-> "Test", customTestDriver |-> customTestDriver,
                      called |-> called,
                      outcome |-> IF r.failf THEN "failf" ELSE "ok",
                      diagnostic |-> r.diagnostic,
                      constructed |-> r.drivers]
  /\ UNCHANGED <<calls, test>>
  /\ UNCHANGED <<kubeNamespace, externalRunCustomTestDriver, extGlobals, bashGlobals>>

LegacyNext ==
  \/ \E filename \in LegacyDefFlags : LegacySet(filename)
  \/ \E customTestDriver \in TestDriverFlags : LegacyTest(customTestDriver)
  \/ \E i \in DOMAIN suites, pattern \in TestPatterns : SkipUnsupportedTest(i, pattern)
  \/ TestCaseEnds

LegacySpec == Init /\ [][LegacyNext]_vars

\* C23: Test reports "Insufficient arguments to run e2e tests" exactly when
\* no usable driver source was supplied; with a driver definition given the
\* suite is run without that failure, and with --testdriver naming a
\* registered driver and no definition that driver's suites are registered.
C23_InsufficientIffNoDriverSource ==
  last.op = "Test"
  => LET definitionGiven == ~externalRunCustomTestDriver
         registered == last.customTestDriver \in DOMAIN CSITestDrivers
         insufficient == /\ last.outcome = "failf"
                         /\ last.diagnostic = InsufficientArguments
     IN /\ insufficient <=> (~definitionGiven /\ ~registered)
        /\ definitionGiven => (last.outcome = "ok" /\ phase = "run")
        /\ (registered /\ ~definitionGiven)
             => {n \in DOMAIN CSITestDrivers :
                   \E i \in DOMAIN suites : suites[i] = CodeDriver(n)}
                  = {last.customTestDriver}

(***************************************************************************)
(* The precedence of the two storage-class strategies, checked under       *)
(* DriverSpec.                                                             *)
(***************************************************************************)

\* C24: StorageClass.FromFile is used only when FromName is false: with
\* FromName true GetDynamicProvisionStorageClass never loads the FromFile
\* manifest, whatever the file holds, and returns the class derived from the
\* driver's name; a call that loaded the manifest had FromName false.
C24_FromFileOnlyWhenNotFromName ==
  (last.op = "GetDynamicProvisionStorageClass")
  => LET d == suites[last.driver].def
     IN /\ d.StorageClass.FromName
           => /\ ~last.result.loaded
              /\ last.result.outcome = "returned"
              /\ last.result.sc.Provisioner = d.DriverInfo.Name
              /\ last.result.sc.Name
                   = last.ns \o "-" \o d.DriverInfo.Name \o "-sc"
        /\ last.result.loaded => ~d.StorageClass.FromName

C24_Witness ==
  /\ last.op = "GetDynamicProvisionStorageClass"
  /\ suites[last.driver].def.StorageClass.FromName
  /\ suites[last.driver].def.StorageClass.FromFile = "sc.yaml"
  /\ ~last.load.err
  /\ Len(last.load.items) = 1
  /\ last.load.items[1].Kind = "StorageClass"
  /\ ~last.result.loaded
  /\ last.result.sc.Provisioner = suites[last.driver].def.DriverInfo.Name

(***************************************************************************)
(* StorageClassTest.TestDynamicProvisioning, statement by statement: the   *)
(* StorageClass and the claim are created, each followed by a defer of its *)
(* deletion; the claim is waited for, read again and checked with its PV;  *)
(* the claim is deleted and, with reclaim policy Delete, the PV is waited  *)
(* for. A failed Expect, ExpectNoError or Failf panics: the function       *)
(* leaves through its deferred functions, last registered first.           *)
(***************************************************************************)
ReclaimPolicies == {"Delete", "Retain"}
\* what the variable claim names after `claim, err = ...Get(claim.Name, ...)`
\* returned an error: the client hands back an object together with the
\* error, the created claim's object or an empty one
ClaimObjects == {"created", "empty"}

Attempt(resource, target, at, result) ==
  [resource |-> resource, target |-> target, at |-> at, result |-> result]

ProvisionInit ==
  /\ NoProgram
  /\ \E classGiven \in BOOLEAN, classPolicy \in ReclaimPolicies :
       test = [pc |-> IF classGiven THEN "class" ELSE "claim",
               classGiven |-> classGiven, classPolicy |-> classPolicy,
               classCreated |-> FALSE, claimCreated |-> FALSE,
               claim |-> "given", pvPolicy |-> "",
               deferred |-> << >>, attempts |-> << >>,
               waited |-> FALSE, failures |-> {}]

ProvisionUnchanged ==
  UNCHANGED <<phase, kubeNamespace, externalRunCustomTestDriver, extGlobals,
              bashGlobals, suites, last, calls>>

\* a step that went wrong panics; one that went well moves on
Panics(t, step) == [t EXCEPT !.pc = "unwind", !.failures = @ \cup {step}]

\* client.StorageV1().StorageClasses().Create(class), Expect, defer
CreateClass(ok) ==
  /\ test.pc = "class"
  /\ test' = IF ok
             THEN [test EXCEPT !.pc = "claim", !.classCreated = TRUE,
                               !.deferred = <<"class">> \o @]
             ELSE Panics(test, "CreateClass")
  /\ ProvisionUnchanged

\* client.CoreV1().PersistentVolumeClaims(ns).Create(claim), Expect, defer
CreateClaim(ok) ==
  /\ test.pc = "claim"
  /\ test' = IF ok
             THEN [test EXCEPT !.pc = "bound", !.claimCreated = TRUE,
                               !.claim = "created",
                               !.deferred = <<"claim">> \o @]
             ELSE Panics(test, "CreateClaim")
  /\ ProvisionUnchanged

\* framework.WaitForPersistentVolumeClaimPhase(v1.ClaimBound, ...), Expect
WaitForPersistentVolumeClaimPhase(ok) ==
  /\ test.pc = "bound"
  /\ test' = IF ok THEN [test EXCEPT !.pc = "get"]
             ELSE Panics(test, "WaitForPersistentVolumeClaimPhase")
  /\ ProvisionUnchanged

\* claim, err = ...Get(claim.Name, ...): the variable claim is assigned
\* before err is looked at
GetClaim(ok, object) ==
  /\ test.pc = "get"
  /\ (ok => object = "created")
  /\ test' = IF ok THEN [test EXCEPT !.pc = "pv", !.claim = object]
             ELSE [Panics(test, "GetClaim") EXCEPT !.claim = object]
  /\ ProvisionUnchanged

\* pv, err := ...PersistentVolumes().Get(claim.Spec.VolumeName, ...), Expect
GetPV(ok, policy) ==
  /\ test.pc = "pv"
  /\ test' = IF ok THEN [test EXCEPT !.pc = "check", !.pvPolicy = policy]
             ELSE Panics(test, "GetPV")
  /\ ProvisionUnchanged

\* the policy the PV is expected to have: Delete without a class, the
\* class's own otherwise
ExpectedPolicy(t) == IF t.classGiven THEN t.classPolicy ELSE "Delete"

\* the Expects on sizes, access modes, claim reference, reclaim policy,
\* mount options and volume mode, PvCheck and the two pods
CheckPV(ok) ==
  /\ test.pc = "check"
  /\ (ok => test.pvPolicy = ExpectedPolicy(test))
  /\ test' = IF ok THEN [test EXCEPT !.pc = "delete"]
             ELSE Panics(test, "CheckPV")
  /\ ProvisionUnchanged

\* framework.ExpectNoError(...PersistentVolumeClaims(ns).Delete(claim.Name, nil))
DeleteClaim(result) ==
  /\ test.pc = "delete"
  /\ LET t == [test EXCEPT !.attempts =
                 Append(@, Attempt("claim", test.claim, "body", result))]
     IN test' = IF result = "ok"
                THEN [t EXCEPT !.pc = IF t.pvPolicy = "Delete" THEN "wait"
                                      ELSE "return"]
                ELSE Panics(t, "DeleteClaim")
  /\ ProvisionUnchanged

\* framework.ExpectNoError(framework.WaitForPersistentVolumeDeleted(...))
WaitForPersistentVolumeDeleted(ok) ==
  /\ test.pc = "wait"
  /\ test' = IF ok THEN [test EXCEPT !.pc = "return", !.waited = TRUE]
             ELSE [Panics(test, "WaitForPersistentVolumeDeleted")
                     EXCEPT !.waited = TRUE]
  /\ ProvisionUnchanged

\* the deferred deletion of the claim fails the test on an error other than
\* NotFound, the deferred deletion of the class on any error
DeferredFails(resource, result) ==
  IF resource = "claim" THEN result = "err" ELSE result # "ok"

\* the function leaves, returning or panicking: the deferred function
\* registered last runs. A panic inside it does not stop the ones before it.
RunDeferred(result) ==
  /\ test.pc \in {"return", "unwind"}
  /\ test.deferred # << >>
  /\ LET resource == Head(test.deferred)
         target == IF resource = "claim" THEN test.claim ELSE "created"
         step == IF resource = "claim" THEN "deferredDeleteClaim"
                 ELSE "deferredDeleteClass"
         t == [test EXCEPT !.deferred = Tail(@),
                           !.attempts =
                             Append(@, Attempt(resource, target, "defer", result))]
     IN test' = IF DeferredFails(resource, result) THEN Panics(t, step) ELSE t
  /\ ProvisionUnchanged

\* no deferred function is left: the caller has the PV or the panic
ProvisioningExits ==
  /\ test.pc \in {"return", "unwind"}
  /\ test.deferred = << >>
  /\ test' = [test EXCEPT !.pc = "exited"]
  /\ ProvisionUnchanged

ProvisionNext ==
  \/ \E ok \in BOOLEAN : CreateClass(ok)
  \/ \E ok \in BOOLEAN : CreateClaim(ok)
  \/ \E ok \in BOOLEAN : WaitForPersistentVolumeClaimPhase(ok)
  \/ \E ok \in BOOLEAN, object \in ClaimObjects : GetClaim(ok, object)
  \/ \E ok \in BOOLEAN, policy \in ReclaimPolicies : GetPV(ok, policy)
  \/ \E ok \in BOOLEAN : CheckPV(ok)
  \/ \E result \in ApiResults : DeleteClaim(result)
  \/ \E ok \in BOOLEAN : WaitForPersistentVolumeDeleted(ok)
  \/ \E result \in ApiResults : RunDeferred(result)
  \/ ProvisioningExits

ProvisionSpec == ProvisionInit /\ [][ProvisionNext]_vars

AttemptsOn(resource, object) ==
  {i \in DOMAIN test.attempts :
     test.attempts[i].resource = resource /\ test.attempts[i].target = object}

\* C25: when TestDynamicProvisioning has exited, by return or by a failed
\* assertion, a deletion of the StorageClass it created and a deletion of the
\* claim it created were attempted; a deferred claim deletion answered
\* NotFound did not fail the test; the PV was waited for only with reclaim
\* policy Delete.
C25_CreatedObjectsDeletedBeforeExit ==
  (test.pc = "exited")
  => /\ test.classCreated => AttemptsOn("class", "created") # {}
     /\ test.claimCreated => AttemptsOn("claim", "created") # {}
     /\ \A i \in DOMAIN test.attempts :
          (test.attempts[i].at = "defer" /\ test.attempts[i].resource = "claim")
          => (("deferredDeleteClaim" \in test.failures)
                <=> test.attempts[i].result = "err")
     /\ test.waited => test.pvPolicy = "Delete"

(***************************************************************************)
(* CreateDriver and CleanupDriver of the drivers written in Go, checked    *)
(* under SetupSpec.                                                        *)
(***************************************************************************)

VolumeAttribs == {EmptyKV, [k \in {"server"} |-> "10.0.0.1"]}

CSISource(driver, volHandle, volumeAttrib) ==
  [outcome |-> "returned", Driver |-> driver, VolumeHandle |-> volHandle,
   VolumeAttributes |-> volumeAttrib]

\* driver-call.go: the handle is made from the package variable
\* currentDriver, the Driver field from the receiver
ExtGetPersistentVolumeSource(d, current, volumeAttrib) ==
  IF current.isNil
  THEN [outcome |-> "panic", Driver |-> "", VolumeHandle |-> "",
        VolumeAttributes |-> EmptyKV]
  ELSE CSISource(d.DriverInfo.Name, current.def.DriverInfo.Name \o "-vol",
                 volumeAttrib)

\* externalBash: both from the receiver
BashGetPersistentVolumeSource(b, volumeAttrib) ==
  CSISource(b.DriverInfo.Name, b.DriverInfo.Name \o "-vol", volumeAttrib)

GetPersistentVolumeSourceCall(i, volumeAttrib) ==
  /\ Ready
  /\ suites[i].kind \in ShellKinds
  /\ last' = [op |-> "GetPersistentVolumeSource", driver |-> i,
              volumeAttrib |-> volumeAttrib,
              result |-> IF suites[i].kind = "ext"
                         THEN ExtGetPersistentVolumeSource(suites[i].def,
                                                           currentDriver, volumeAttrib)
                         ELSE BashGetPersistentVolumeSource(suites[i].def,
                                                            volumeAttrib)]
  /\ UNCHANGED <<calls, test>>
  /\ UNCHANGED <<phase, kubeNamespace, externalRunCustomTestDriver, extGlobals,
                 bashGlobals, suites>>

SourceNext ==
  \/ \E filename \in ScriptFlags : ExtSet(filename)
  \/ \E filename \in ScriptFlags : BashSet(filename)
  \/ \E customTestDriver \in TestDriverFlags : Test(customTestDriver)
  \/ \E i \in DOMAIN suites, volumeAttrib \in VolumeAttribs :
       GetPersistentVolumeSourceCall(i, volumeAttrib)
  \/ TestCaseEnds

SourceSpec == Init /\ [][SourceNext]_vars

\* C27: after any registrations of shell-script drivers, the source that
\* GetPersistentVolumeSource returns for a driver has that driver's
\* DriverInfo.Name as Driver, that name followed by "-vol" as VolumeHandle and
\* the attributes of the volume handed in as VolumeAttributes.
C27_SourceNamesOwnDriver ==
  (last.op = "GetPersistentVolumeSource")
  => LET name == suites[last.driver].def.DriverInfo.Name
     IN /\ last.result.outcome = "returned"
        /\ last.result.Driver = name
        /\ last.result.VolumeHandle = name \o "-vol"
        /\ last.result.VolumeAttributes = last.volumeAttrib

(***************************************************************************)
(* execCommand of the bash-testdriver adapter on its own: any script, any  *)
(* function, any namespace to use, any answers of kubectl and the script.  *)
(***************************************************************************)
CmdNames == {"getDriverInfo", "createVolume", "deleteVolume"}
NamespacesToUse == {""} \cup TestNamespaces

ExecCommandCall(pluginName, cmdName, namespaceToUse, env) ==
  /\ last.op = "none"
  /\ LET exec == BashExecCommand(kubeNamespace, pluginName, cmdName,
                                 namespaceToUse, env)
     IN /\ kubeNamespace' = exec.nsAfter
        /\ last' = [op |-> "execCommand", pluginName |-> pluginName,
                    cmdName |-> cmdName, namespaceToUse |-> namespaceToUse,
                    env |-> env, exec |-> exec]
  /\ UNCHANGED <<calls, test>>
  /\ UNCHANGED <<phase, externalRunCustomTestDriver, extGlobals, bashGlobals, suites>>

ExecNext ==
  \E pluginName \in ScriptFlags, cmdName \in CmdNames,
     namespaceToUse \in NamespacesToUse, env \in ExecEnvs :
    ExecCommandCall(pluginName, cmdName, namespaceToUse, env)

ExecSpec == Init /\ [][ExecNext]_vars

\* C28: execCommand of the bash-testdriver adapter does not run the script
\* when reading or setting the namespace failed; once the script ran, the
\* namespace read at the start is set again, whether the script succeeded
\* or not; the script's output is returned exactly when the read, the set,
\* the script and the restore all succeeded, and otherwise an error and no
\* output.
C28_BashExecCommandErrorHandling ==
  (last.op = "execCommand")
  => LET e == last.exec
         env == last.env
         succeeded == ScriptSucceeds(last.pluginName, last.cmdName, env.run)
         all == env.get /\ env.set1 /\ succeeded /\ env.set2
     IN /\ (~env.get \/ ~env.set1) => (~e.ran /\ e.nsAfter = e.nsBefore)
        /\ (env.get /\ env.set1) => e.ran
        /\ e.ran => e.nsAfter = (IF env.set2 THEN e.nsBefore ELSE e.nsDuring)
        /\ ~e.err <=> all
        /\ ~e.err => e.data = ScriptOutput(last.pluginName, last.cmdName)
        /\ e.err => e.data = NilData

\* the script ran in another namespace and failed, and the namespace is the
\* previous one again
C28_Witness ==
  /\ last.op = "execCommand"
  /\ last.exec.ran
  /\ ~last.exec.ok
  /\ last.env.set2
  /\ last.exec.nsDuring # last.exec.nsBefore
  /\ last.exec.nsAfter = last.exec.nsBefore
  /\ last.exec.err
  /\ last.exec.data = NilData

(***************************************************************************)
(* manifestDriver.GetDynamicProvisionStorageClass, called in the test      *)
(* cases of the manifestDriver between CreateDriver and CleanupDriver.     *)
(***************************************************************************)
\* LoadFromManifests and its two Expects, PatchItems and its Expect, then
\* `err = utils.PatchCSIDeployment(...)`, whose err is not read again, and
\* the type assertion
ManifestStorageClass(load, patchErr, deployErr) ==
  IF load.err THEN Fatal("load", TRUE)
  ELSE IF Len(load.items) # 1 THEN Fatal("count", TRUE)
  ELSE IF patchErr THEN Fatal("patch", TRUE)
  ELSE IF load.items[1].Kind # "StorageClass" THEN Fatal("type", TRUE)
  ELSE [outcome |-> "returned", loaded |-> TRUE, sc |-> load.items[1]]

ManifestStorageClassCall(load, patchErr, deployErr) ==
  /\ test.pc = "It"
  /\ test.m.kind = "manifestDriver"
  \* PatchCSIDeployment is reached only after the Expects before it passed
  /\ (deployErr => ~load.err /\ Len(load.items) = 1 /\ ~patchErr)
  /\ LET result == ManifestStorageClass(load, patchErr, deployErr)
     IN /\ last' = [op |-> "manifestDriver.GetDynamicProvisionStorageClass",
                    load |-> load, patchErr |-> patchErr, deployErr |-> deployErr,
                    result |-> result]
        /\ test' = [test EXCEPT !.pc = "AfterEach",
                                !.failed = (result.outcome # "returned"),
                                !.called = "GetDynamicProvisionStorageClass"]
  /\ UNCHANGED <<phase, kubeNamespace, externalRunCustomTestDriver, extGlobals,
                 bashGlobals, suites, calls>>

ManifestInit == CodeInit /\ test.m.kind = "manifestDriver"

ManifestNext ==
  \/ \E node \in Nodes, step \in CreateSteps, cleanup \in CleanupFuncs :
       CreateDriver(node, step, cleanup)
  \/ \E load \in ManifestLoads, patchErr \in BOOLEAN, deployErr \in BOOLEAN :
       ManifestStorageClassCall(load, patchErr, deployErr)
  \/ CleanupDriver

ManifestSpec == ManifestInit /\ [][ManifestNext]_vars

\* C29: every error of LoadFromManifests, PatchItems or PatchCSIDeployment
\* makes manifestDriver.GetDynamicProvisionStorageClass fail; a StorageClass
\* is returned only when the three steps succeeded.
C29_EveryErrorFails ==
  (last.op = "manifestDriver.GetDynamicProvisionStorageClass")
  => /\ (last.load.err \/ last.patchErr \/ last.deployErr)
          => last.result.outcome = "fatal"
     /\ (last.result.outcome = "returned")
          => (~last.load.err /\ ~last.patchErr /\ ~last.deployErr)

====
